---- MODULE Spec2Model ----
\* The rules engine of the checkers game (src/js/game.js, object Game) as a
\* state machine: the engine's fields are the variables, and every public
\* operation (init, selectPiece, movePiece) is one action computed by an
\* operator of the same name that maps an engine record to the engine record
\* after the call.  A second specification, SpecNet, runs one engine on each
\* of the two pages of a networked match: the board's input handlers
\* (src/js/board.js), the keyboard gate and the network callbacks
\* (src/js/players.js) and the move messages relayed by the server
\* (src/js/multiplayer.js, src/server.js), from the lobby on.  A third
\* specification, SpecRelay, is the relay server itself (src/server.js): its
\* room map and its connections under the messages any client may send.
EXTENDS Integers, Sequences, FiniteSets, TLC

\* ---------------------------------------------------------------- constants
BOARD_SIZE == 8
EMPTY == 0
RED == 1
BLUE == 2
RED_KING == 3
BLUE_KING == 4

\* Number of successful movePiece calls explored after each opening line.
MaxPlies == 2

\* Networked match: number of moves explored after each opening line, and the
\* last column of the cells the two users touch while exploring.
MaxNetMoves == 1
MaxNetCol == 3

\* Relay: number of connections made to the server, and number of messages
\* and disconnections explored after each opening line.
MaxConns == 4
MaxRelayEvents == 2

Coord == 0 .. (BOARD_SIZE - 1)

\* JavaScript's null for selectedPiece, and undefined for the captured
\* coordinates of a simple move.
NoCoord == 0 - 1
null == [row |-> NoCoord, col |-> NoCoord]

VARIABLES
    board,          \* Game.board[row][col]
    currentPlayer,  \* Game.currentPlayer (1 = RED, 2 = BLUE)
    selectedPiece,  \* Game.selectedPiece ({row, col} or null)
    validMoves,     \* Game.validMoves (array of moves)
    mustCapture,    \* Game.mustCapture
    captureChain,   \* Game.captureChain
    redPieces,      \* Game.redPieces
    bluePieces,     \* Game.bluePieces
    gameOver,       \* Game.gameOver
    result,         \* what the last call returned
    script,         \* the moves of the opening line still to be played
    plies,          \* successful movePiece calls since the opening line ended
    pages,          \* networked match: the page of the host and of the joiner
    netScript,      \* networked match: the events of the opening line to come
    netMoves,       \* networked match: moves made since the opening line ended
    rooms,          \* relay: the Map rooms of server.js
    conns,          \* relay: the WebSocket connections, with what was sent to each
    event,          \* relay: the connection event handled last
    relayScript,    \* relay: the events of the opening line to come
    relayEvents     \* relay: events handled since the opening line ended

engineVars == <<board, currentPlayer, selectedPiece, validMoves, mustCapture,
                captureChain, redPieces, bluePieces, gameOver, result, script,
                plies>>

netVars == <<pages, netScript, netMoves>>

relayVars == <<rooms, conns, event, relayScript, relayEvents>>

vars == <<board, currentPlayer, selectedPiece, validMoves, mustCapture,
          captureChain, redPieces, bluePieces, gameOver, result, script, plies,
          pages, netScript, netMoves,
          rooms, conns, event, relayScript, relayEvents>>

\* The engine as one record.
G == [board |-> board, currentPlayer |-> currentPlayer,
      selectedPiece |-> selectedPiece, validMoves |-> validMoves,
      mustCapture |-> mustCapture, captureChain |-> captureChain,
      redPieces |-> redPieces, bluePieces |-> bluePieces,
      gameOver |-> gameOver, result |-> result]

\* Return values. Fields a JavaScript result object leaves out are FALSE / 0.
Ret(op, success, captured, crowned, continueCapture, over, winner) ==
    [op |-> op, success |-> success, captured |-> captured,
     crowned |-> crowned, continueCapture |-> continueCapture,
     gameOver |-> over, winner |-> winner]

\* ------------------------------------------------------------------ helpers
\* Mutant: only two ranks of each color are set up.
initBoard_TwoRanks ==
    [row \in Coord |-> [col \in Coord |->
        IF (row + col) % 2 = 1
        THEN IF row < 2 THEN BLUE
             ELSE IF row > 5 THEN RED
             ELSE EMPTY
        ELSE EMPTY]]

initBoard ==
    [row \in Coord |-> [col \in Coord |->
        IF (row + col) % 2 = 1
        THEN IF row < 3 THEN BLUE
             ELSE IF row > 4 THEN RED
             ELSE EMPTY
        ELSE EMPTY]]

init ==
    [board |-> initBoard, currentPlayer |-> 1, selectedPiece |-> null,
     validMoves |-> <<>>, mustCapture |-> FALSE, captureChain |-> FALSE,
     redPieces |-> 12, bluePieces |-> 12, gameOver |-> FALSE,
     result |-> Ret("init", TRUE, FALSE, FALSE, FALSE, FALSE, 0)]

isValidPosition(row, col) ==
    row >= 0 /\ row < BOARD_SIZE /\ col >= 0 /\ col < BOARD_SIZE

isCurrentPlayerPiece(cp, piece) ==
    IF cp = 1 THEN piece = RED \/ piece = RED_KING
    ELSE piece = BLUE \/ piece = BLUE_KING

isOpponentPiece(cp, piece) ==
    IF cp = 1 THEN piece = BLUE \/ piece = BLUE_KING
    ELSE piece = RED \/ piece = RED_KING

isKing(piece) == piece = RED_KING \/ piece = BLUE_KING

\* Mutant: a man moves backward as well.
directions_MenBothWays(piece) ==
    << <<0 - 1, 0 - 1>>, <<0 - 1, 1>>, <<1, 0 - 1>>, <<1, 1>> >>

\* The directions a piece moves in, in the order the code tries them.
directions(piece) ==
    IF isKing(piece)
    THEN << <<0 - 1, 0 - 1>>, <<0 - 1, 1>>, <<1, 0 - 1>>, <<1, 1>> >>
    ELSE IF piece = RED \/ piece = RED_KING
    THEN << <<0 - 1, 0 - 1>>, <<0 - 1, 1>> >>
    ELSE << <<1, 0 - 1>>, <<1, 1>> >>

\* Mutant: a simple move goes straight ahead, onto a light square.
simpleMove_Straight(b, row, col, d) ==
    LET newRow == row + d[1]
        newCol == col
    IN IF isValidPosition(newRow, newCol) /\ b[newRow][newCol] = EMPTY
       THEN << [row |-> newRow, col |-> newCol, capture |-> FALSE,
                capturedRow |-> NoCoord, capturedCol |-> NoCoord] >>
       ELSE <<>>

\* The simple move in direction d, as a sequence of zero or one moves.
simpleMove(b, row, col, d) ==
    LET newRow == row + d[1]
        newCol == col + d[2]
    IN IF isValidPosition(newRow, newCol) /\ b[newRow][newCol] = EMPTY
       THEN << [row |-> newRow, col |-> newCol, capture |-> FALSE,
                capturedRow |-> NoCoord, capturedCol |-> NoCoord] >>
       ELSE <<>>

\* The capture in direction d, as a sequence of zero or one moves.
captureMove(b, cp, row, col, d) ==
    LET newRow == row + d[1]
        newCol == col + d[2]
        jumpRow == newRow + d[1]
        jumpCol == newCol + d[2]
    IN IF /\ isValidPosition(newRow, newCol)
          /\ b[newRow][newCol] # EMPTY
          /\ isOpponentPiece(cp, b[newRow][newCol])
          /\ isValidPosition(jumpRow, jumpCol)
          /\ b[jumpRow][jumpCol] = EMPTY
       THEN << [row |-> jumpRow, col |-> jumpCol, capture |-> TRUE,
                capturedRow |-> newRow, capturedCol |-> newCol] >>
       ELSE <<>>

RECURSIVE simpleMoves(_, _, _, _)
simpleMoves(b, row, col, dirs) ==
    IF dirs = <<>> THEN <<>>
    ELSE simpleMove(b, row, col, Head(dirs))
         \o simpleMoves(b, row, col, Tail(dirs))

RECURSIVE captureMoves(_, _, _, _, _)
captureMoves(b, cp, row, col, dirs) ==
    IF dirs = <<>> THEN <<>>
    ELSE captureMove(b, cp, row, col, Head(dirs))
         \o captureMoves(b, cp, row, col, Tail(dirs))

\* Mutant: the simple moves are returned together with the captures.
getValidMoves_Mixed(b, cp, mc, row, col) ==
    LET piece == b[row][col]
        moves == simpleMoves(b, row, col, directions(piece))
        captures == captureMoves(b, cp, row, col, directions(piece))
    IN IF Len(captures) > 0 THEN captures \o moves
       ELSE IF ~mc THEN moves
       ELSE <<>>

getValidMoves(b, cp, mc, row, col) ==
    LET piece == b[row][col]
        moves == simpleMoves(b, row, col, directions(piece))
        captures == captureMoves(b, cp, row, col, directions(piece))
    IN IF Len(captures) > 0 THEN captures
       ELSE IF ~mc THEN moves
       ELSE <<>>

someCapture(moves) == \E i \in 1 .. Len(moves) : moves[i].capture

\* Mutant: the captures of the player who has just moved are looked for.
checkMustCapture_PreviousPlayer(b, cp, mc) ==
    \E row \in Coord, col \in Coord :
        /\ isOpponentPiece(cp, b[row][col])
        /\ someCapture(getValidMoves(b, IF cp = 1 THEN 2 ELSE 1, mc, row, col))

checkMustCapture(b, cp, mc) ==
    \E row \in Coord, col \in Coord :
        /\ isCurrentPlayerPiece(cp, b[row][col])
        /\ someCapture(getValidMoves(b, cp, mc, row, col))

\* Mutant: the mobility of the current player is checked before the counters.
checkGameOver_MobilityFirst(b, cp, mc, red, blue) ==
    IF ~\E row \in Coord, col \in Coord :
            /\ isCurrentPlayerPiece(cp, b[row][col])
            /\ Len(getValidMoves(b, cp, mc, row, col)) > 0
    THEN [over |-> TRUE, winner |-> IF cp = 1 THEN 2 ELSE 1]
    ELSE IF red = 0 THEN [over |-> TRUE, winner |-> 2]
    ELSE IF blue = 0 THEN [over |-> TRUE, winner |-> 1]
    ELSE [over |-> FALSE, winner |-> 0]

\* Mutant: only the counters decide; a blocked player goes unnoticed.
checkGameOver_CountersOnly(b, cp, mc, red, blue) ==
    IF red = 0 THEN [over |-> TRUE, winner |-> 2]
    ELSE IF blue = 0 THEN [over |-> TRUE, winner |-> 1]
    ELSE [over |-> FALSE, winner |-> 0]

checkGameOver(b, cp, mc, red, blue) ==
    IF red = 0 THEN [over |-> TRUE, winner |-> 2]
    ELSE IF blue = 0 THEN [over |-> TRUE, winner |-> 1]
    ELSE IF \E row \in Coord, col \in Coord :
                /\ isCurrentPlayerPiece(cp, b[row][col])
                /\ Len(getValidMoves(b, cp, mc, row, col)) > 0
    THEN [over |-> FALSE, winner |-> 0]
    ELSE [over |-> TRUE, winner |-> IF cp = 1 THEN 2 ELSE 1]

\* Mutant: a piece that cannot capture is accepted while a capture is mandatory.
selectPiece_IgnoresMustCapture(g, row, col) ==
    LET piece == g.board[row][col]
        moves == getValidMoves(g.board, g.currentPlayer, g.mustCapture, row, col)
        fail == Ret("selectPiece", FALSE, FALSE, FALSE, FALSE, FALSE, 0)
    IN IF /\ g.captureChain
          /\ g.selectedPiece # null
          /\ (row # g.selectedPiece.row \/ col # g.selectedPiece.col)
       THEN [g EXCEPT !.result = fail]
       ELSE IF ~isCurrentPlayerPiece(g.currentPlayer, piece)
       THEN [g EXCEPT !.result = fail]
       ELSE [g EXCEPT !.selectedPiece = [row |-> row, col |-> col],
                      !.validMoves =
                          getValidMoves(g.board, g.currentPlayer, FALSE, row, col),
                      !.result = Ret("selectPiece", TRUE, FALSE, FALSE,
                                     FALSE, FALSE, 0)]

\* Mutant: during a capture chain another piece may be selected.
selectPiece_IgnoresChain(g, row, col) ==
    LET piece == g.board[row][col]
        moves == getValidMoves(g.board, g.currentPlayer, g.mustCapture, row, col)
        fail == Ret("selectPiece", FALSE, FALSE, FALSE, FALSE, FALSE, 0)
    IN IF ~isCurrentPlayerPiece(g.currentPlayer, piece)
       THEN [g EXCEPT !.result = fail]
       ELSE IF g.mustCapture /\ ~someCapture(moves)
       THEN [g EXCEPT !.selectedPiece = null, !.validMoves = <<>>,
                      !.result = fail]
       ELSE [g EXCEPT !.selectedPiece = [row |-> row, col |-> col],
                      !.validMoves = moves,
                      !.result = Ret("selectPiece", TRUE, FALSE, FALSE,
                                     FALSE, FALSE, 0)]

\* The engine after selectPiece(row, col); result.success is what it returned.
selectPiece(g, row, col) ==
    LET piece == g.board[row][col]
        moves == getValidMoves(g.board, g.currentPlayer, g.mustCapture, row, col)
        fail == Ret("selectPiece", FALSE, FALSE, FALSE, FALSE, FALSE, 0)
    IN IF /\ g.captureChain
          /\ g.selectedPiece # null
          /\ (row # g.selectedPiece.row \/ col # g.selectedPiece.col)
       THEN [g EXCEPT !.result = fail]
       ELSE IF ~isCurrentPlayerPiece(g.currentPlayer, piece)
       THEN [g EXCEPT !.result = fail]
       ELSE IF g.mustCapture /\ ~someCapture(moves)
       THEN [g EXCEPT !.selectedPiece = null, !.validMoves = <<>>,
                      !.result = fail]
       ELSE [g EXCEPT !.selectedPiece = [row |-> row, col |-> col],
                      !.validMoves = moves,
                      !.result = Ret("selectPiece", TRUE, FALSE, FALSE,
                                     FALSE, FALSE, 0)]

\* Mutant: only a RED man is promoted.
isCrowned_RedOnly(piece, toRow) ==
    ~isKing(piece) /\ piece = RED /\ toRow = 0

\* Lines 290-298 of movePiece: whether the moved piece is promoted.
isCrowned(piece, toRow) ==
    /\ ~isKing(piece)
    /\ \/ (piece = RED /\ toRow = 0)
       \/ (piece = BLUE /\ toRow = BOARD_SIZE - 1)

\* Mutant: the captured piece stays on the board.
movedBoard_KeepsCaptured(b, from, move) ==
    LET piece == b[from.row][from.col]
        b1 == [b EXCEPT ![move.row][move.col] = piece]
        b2 == [b1 EXCEPT ![from.row][from.col] = EMPTY]
    IN IF isCrowned(piece, move.row)
       THEN [b2 EXCEPT ![move.row][move.col] =
                IF piece = RED THEN RED_KING ELSE BLUE_KING]
       ELSE b2

\* Lines 263-298 of movePiece: the board after the piece is relocated, the
\* captured piece removed and the piece promoted.
movedBoard(b, from, move) ==
    LET piece == b[from.row][from.col]
        b1 == [b EXCEPT ![move.row][move.col] = piece]
        b2 == [b1 EXCEPT ![from.row][from.col] = EMPTY]
        b3 == IF move.capture
              THEN [b2 EXCEPT ![move.capturedRow][move.capturedCol] = EMPTY]
              ELSE b2
    IN IF isCrowned(piece, move.row)
       THEN [b3 EXCEPT ![move.row][move.col] =
                IF piece = RED THEN RED_KING ELSE BLUE_KING]
       ELSE b3

\* Mutant: the chain continues only after a promotion.
continuesChain_OnlyAfterCrown(captured, crowned, chainMoves) ==
    captured /\ crowned /\ Len(chainMoves) > 0

\* Mutant: a promotion does not end the chain.
continuesChain_IgnoresCrown(captured, crowned, chainMoves) ==
    captured /\ Len(chainMoves) > 0

\* Lines 300-310: whether a capture that did not crown continues the chain.
continuesChain(captured, crowned, chainMoves) ==
    captured /\ ~crowned /\ Len(chainMoves) > 0

\* Lines 317-318: the end-of-game check made at the end of a turn, before the
\* turn changes.
turnEndCheck(b, cp, mc, red, blue) == checkGameOver(b, cp, mc, red, blue)

\* Mutant: a rejected move drops the selection.
moveRejected_ClearsSelection(g) ==
    [g EXCEPT !.selectedPiece = null, !.validMoves = <<>>,
              !.result = Ret("movePiece", FALSE, FALSE, FALSE, FALSE, FALSE, 0)]

\* Lines 255-261: movePiece without a selection, or to a cell that is not among
\* validMoves, returns { success: false }.
moveRejected(g) ==
    [g EXCEPT !.result = Ret("movePiece", FALSE, FALSE, FALSE, FALSE, FALSE, 0)]

\* The engine after movePiece(toRow, toCol); result is what it returned.
movePiece(g, toRow, toCol) ==
    LET found == { i \in 1 .. Len(g.validMoves) :
                     g.validMoves[i].row = toRow /\ g.validMoves[i].col = toCol }
    IN IF g.selectedPiece = null THEN moveRejected(g)
       ELSE IF found = {} THEN moveRejected(g)
       ELSE
         LET move == g.validMoves[CHOOSE i \in found : \A j \in found : i <= j]
             from == g.selectedPiece
             piece == g.board[from.row][from.col]
             b == movedBoard(g.board, from, move)
             captured == move.capture
             crowned == isCrowned(piece, toRow)
             red == IF captured /\ g.currentPlayer # 1
                    THEN g.redPieces - 1 ELSE g.redPieces
             blue == IF captured /\ g.currentPlayer = 1
                     THEN g.bluePieces - 1 ELSE g.bluePieces
             \* line 303 sets mustCapture before the chain moves are computed
             mc == IF captured /\ ~crowned THEN TRUE ELSE g.mustCapture
             chainMoves == SelectSeq(
                 getValidMoves(b, g.currentPlayer, mc, toRow, toCol),
                 LAMBDA m : m.capture)
             gameResult == turnEndCheck(b, g.currentPlayer, mc, red, blue)
             next == IF g.currentPlayer = 1 THEN 2 ELSE 1
         IN IF continuesChain(captured, crowned, chainMoves)
            THEN [board |-> b, currentPlayer |-> g.currentPlayer,
                  selectedPiece |-> [row |-> toRow, col |-> toCol],
                  validMoves |-> chainMoves, mustCapture |-> mc,
                  captureChain |-> TRUE, redPieces |-> red,
                  bluePieces |-> blue, gameOver |-> g.gameOver,
                  result |-> Ret("movePiece", TRUE, captured, crowned, TRUE,
                                 FALSE, 0)]
            ELSE IF gameResult.over
            THEN [board |-> b, currentPlayer |-> g.currentPlayer,
                  selectedPiece |-> null, validMoves |-> <<>>,
                  mustCapture |-> mc, captureChain |-> FALSE,
                  redPieces |-> red, bluePieces |-> blue, gameOver |-> TRUE,
                  result |-> Ret("movePiece", TRUE, captured, crowned, FALSE,
                                 TRUE, gameResult.winner)]
            ELSE [board |-> b, currentPlayer |-> next,
                  selectedPiece |-> null, validMoves |-> <<>>,
                  mustCapture |-> checkMustCapture(b, next, mc),
                  captureChain |-> FALSE, redPieces |-> red,
                  bluePieces |-> blue, gameOver |-> g.gameOver,
                  result |-> Ret("movePiece", TRUE, captured, crowned, FALSE,
                                 FALSE, 0)]

\* Mutant: the selection is cancelled during a capture chain too.
cancelSelection_IgnoresChain(g) ==
    IF g.selectedPiece # null
    THEN [g EXCEPT !.selectedPiece = null, !.validMoves = <<>>,
                   !.result = Ret("cancelSelection", TRUE, FALSE, FALSE,
                                  FALSE, FALSE, 0)]
    ELSE [g EXCEPT !.result = Ret("cancelSelection", FALSE, FALSE, FALSE,
                                  FALSE, FALSE, 0)]

\* Escape, a cancelled drag, or a click on the selected piece: the board view
\* clears the engine's selection unless a capture chain is active.
cancelSelection(g) ==
    IF g.selectedPiece # null /\ ~g.captureChain
    THEN [g EXCEPT !.selectedPiece = null, !.validMoves = <<>>,
                   !.result = Ret("cancelSelection", TRUE, FALSE, FALSE,
                                  FALSE, FALSE, 0)]
    ELSE [g EXCEPT !.result = Ret("cancelSelection", FALSE, FALSE, FALSE,
                                  FALSE, FALSE, 0)]

\* ------------------------------------------------------------ opening lines
\* A line of play is a sequence of <<fromRow, fromCol, toRow, toCol>>: each
\* entry is selectPiece(fromRow, fromCol) followed by movePiece(toRow, toCol).
\* A match starts at init, follows one of the lines below move by move, and is
\* then explored freely for MaxPlies further moves. The lines lead the
\* exploration to the parts of a match that lie too deep for an exhaustive
\* search from the first move: the end of each line is a position just before
\* the event its comment names.

\* 6 moves of a match; the next move is a capture that continues as a chain.
chainLine ==
    <<
       <<5, 2, 4, 3>>, <<2, 3, 3, 2>>, <<5, 6, 4, 5>>, <<1, 4, 2, 3>>,
       <<6, 1, 5, 2>>, <<3, 2, 4, 1>>
    >>

\* 18 moves of a match; the next move is a simple move that crowns a RED man.
promoLine ==
    <<
       <<5, 4, 4, 3>>, <<2, 5, 3, 6>>, <<6, 3, 5, 4>>, <<3, 6, 4, 7>>,
       <<5, 0, 4, 1>>, <<1, 4, 2, 5>>, <<6, 1, 5, 0>>, <<2, 1, 3, 0>>,
       <<4, 3, 3, 2>>, <<2, 3, 3, 4>>, <<3, 2, 2, 3>>, <<2, 5, 3, 6>>,
       <<4, 1, 3, 2>>, <<1, 6, 2, 5>>, <<7, 2, 6, 1>>, <<0, 5, 1, 6>>,
       <<2, 3, 1, 4>>, <<1, 2, 2, 3>>
    >>

\* 26 moves of a match; the next move is a capture that crowns a BLUE man next to a further capture.
crownCaptureLine ==
    <<
       <<5, 4, 4, 3>>, <<2, 5, 3, 6>>, <<6, 3, 5, 4>>, <<3, 6, 4, 7>>,
       <<5, 0, 4, 1>>, <<1, 4, 2, 5>>, <<6, 1, 5, 0>>, <<2, 1, 3, 0>>,
       <<4, 3, 3, 2>>, <<2, 3, 3, 4>>, <<3, 2, 2, 3>>, <<2, 5, 3, 6>>,
       <<4, 1, 3, 2>>, <<1, 6, 2, 5>>, <<7, 2, 6, 1>>, <<0, 5, 1, 6>>,
       <<2, 3, 1, 4>>, <<1, 2, 2, 3>>, <<5, 0, 4, 1>>, <<0, 1, 1, 2>>,
       <<5, 4, 4, 3>>, <<1, 2, 2, 1>>, <<7, 4, 6, 3>>, <<0, 3, 1, 2>>,
       <<5, 6, 4, 5>>, <<3, 6, 5, 4>>
    >>

\* 32 moves of a match; the next move is the capture of the last BLUE piece by a man.
lastPieceLine ==
    <<
       <<5, 2, 4, 3>>, <<2, 3, 3, 2>>, <<6, 1, 5, 2>>, <<1, 4, 2, 3>>,
       <<5, 6, 4, 7>>, <<2, 3, 3, 4>>, <<7, 0, 6, 1>>, <<2, 7, 3, 6>>,
       <<5, 4, 4, 5>>, <<3, 2, 5, 4>>, <<4, 5, 2, 7>>, <<0, 5, 1, 4>>,
       <<6, 5, 4, 3>>, <<2, 5, 3, 6>>, <<2, 7, 0, 5>>, <<2, 1, 3, 0>>,
       <<4, 3, 2, 5>>, <<3, 0, 4, 1>>, <<5, 0, 3, 2>>, <<0, 7, 1, 6>>,
       <<2, 5, 0, 7>>, <<1, 0, 2, 1>>, <<3, 2, 1, 0>>, <<1, 2, 2, 1>>,
       <<0, 5, 2, 3>>, <<0, 1, 1, 2>>, <<2, 3, 0, 1>>, <<0, 3, 1, 2>>,
       <<0, 1, 2, 3>>, <<2, 1, 3, 2>>, <<4, 7, 2, 5>>, <<3, 2, 4, 3>>
    >>

\* 68 moves of a match; the next move is the capture of the last BLUE piece by a man that is crowned.
lastPieceCrownLine ==
    <<
       <<5, 2, 4, 3>>, <<2, 3, 3, 2>>, <<6, 1, 5, 2>>, <<1, 4, 2, 3>>,
       <<5, 6, 4, 7>>, <<2, 3, 3, 4>>, <<7, 0, 6, 1>>, <<2, 7, 3, 6>>,
       <<5, 4, 4, 5>>, <<3, 2, 5, 4>>, <<4, 5, 2, 7>>, <<0, 5, 1, 4>>,
       <<6, 5, 4, 3>>, <<2, 5, 3, 6>>, <<2, 7, 0, 5>>, <<2, 1, 3, 0>>,
       <<4, 3, 2, 5>>, <<3, 0, 4, 1>>, <<5, 0, 3, 2>>, <<0, 7, 1, 6>>,
       <<2, 5, 0, 7>>, <<1, 0, 2, 1>>, <<3, 2, 1, 0>>, <<1, 2, 2, 1>>,
       <<0, 5, 2, 3>>, <<0, 1, 1, 2>>, <<2, 3, 0, 1>>, <<0, 3, 1, 2>>,
       <<0, 1, 2, 3>>, <<3, 6, 4, 5>>, <<5, 2, 4, 3>>, <<2, 1, 3, 0>>,
       <<6, 3, 5, 2>>, <<4, 5, 5, 4>>, <<7, 2, 6, 3>>, <<5, 4, 7, 2>>,
       <<6, 1, 5, 0>>, <<7, 2, 6, 1>>, <<2, 3, 3, 4>>, <<6, 1, 7, 2>>,
       <<7, 6, 6, 5>>, <<7, 2, 6, 1>>, <<3, 4, 4, 5>>, <<6, 1, 7, 2>>,
       <<4, 3, 3, 2>>, <<7, 2, 6, 1>>, <<5, 0, 4, 1>>, <<6, 1, 4, 3>>,
       <<4, 3, 2, 1>>, <<7, 4, 6, 3>>, <<3, 0, 5, 2>>, <<5, 2, 7, 4>>,
       <<6, 5, 5, 6>>, <<2, 1, 3, 2>>, <<4, 5, 3, 4>>, <<7, 4, 6, 5>>,
       <<5, 6, 4, 5>>, <<6, 5, 5, 4>>, <<3, 4, 4, 3>>, <<5, 4, 3, 6>>,
       <<4, 3, 2, 1>>, <<3, 6, 2, 5>>, <<6, 7, 5, 6>>, <<2, 5, 3, 4>>,
       <<4, 7, 3, 6>>, <<3, 4, 2, 3>>, <<3, 6, 2, 5>>, <<2, 3, 1, 4>>
    >>

\* 30 moves of a match; the next move is a turn that leaves the opponent without a legal move.
blockedOpponentLine ==
    <<
       <<5, 4, 4, 5>>, <<2, 5, 3, 4>>, <<5, 2, 4, 1>>, <<2, 1, 3, 2>>,
       <<6, 3, 5, 4>>, <<1, 0, 2, 1>>, <<7, 2, 6, 3>>, <<0, 1, 1, 0>>,
       <<4, 1, 3, 0>>, <<3, 4, 4, 3>>, <<6, 3, 5, 2>>, <<2, 3, 3, 4>>,
       <<4, 5, 2, 3>>, <<2, 3, 0, 1>>, <<3, 2, 4, 1>>, <<5, 0, 3, 2>>,
       <<0, 3, 1, 2>>, <<0, 1, 2, 3>>, <<1, 4, 2, 5>>, <<3, 0, 1, 2>>,
       <<0, 5, 1, 4>>, <<2, 3, 0, 5>>, <<1, 0, 2, 1>>, <<3, 2, 1, 0>>,
       <<2, 7, 3, 6>>, <<0, 5, 2, 7>>, <<2, 7, 4, 5>>, <<2, 5, 3, 6>>,
       <<4, 5, 2, 7>>, <<0, 7, 1, 6>>
    >>

\* 34 moves of a match; the next move is a simple move that leaves the mover without a legal move.
blockedMoverLine ==
    <<
       <<5, 4, 4, 5>>, <<2, 5, 3, 4>>, <<5, 2, 4, 1>>, <<2, 1, 3, 2>>,
       <<6, 3, 5, 4>>, <<1, 0, 2, 1>>, <<7, 2, 6, 3>>, <<0, 1, 1, 0>>,
       <<4, 1, 3, 0>>, <<3, 4, 4, 3>>, <<6, 3, 5, 2>>, <<2, 7, 3, 6>>,
       <<4, 5, 2, 7>>, <<2, 3, 3, 4>>, <<5, 2, 4, 1>>, <<3, 4, 4, 5>>,
       <<5, 6, 3, 4>>, <<4, 3, 5, 2>>, <<6, 1, 4, 3>>, <<1, 4, 2, 5>>,
       <<4, 1, 2, 3>>, <<2, 3, 0, 1>>, <<0, 5, 1, 4>>, <<2, 7, 0, 5>>,
       <<0, 3, 1, 2>>, <<0, 5, 2, 3>>, <<2, 1, 3, 2>>, <<3, 4, 1, 6>>,
       <<0, 7, 2, 5>>, <<2, 3, 4, 1>>, <<1, 0, 2, 1>>, <<0, 1, 2, 3>>,
       <<2, 5, 3, 4>>, <<2, 3, 4, 5>>
    >>

openingLines ==
    { <<>>, chainLine, promoLine, crownCaptureLine, lastPieceLine,
      lastPieceCrownLine, blockedOpponentLine, blockedMoverLine }

\* ------------------------------------------------------------ state machine
\* The variables take the fields of engine record g.
Becomes(g) ==
    /\ board' = g.board
    /\ currentPlayer' = g.currentPlayer
    /\ selectedPiece' = g.selectedPiece
    /\ validMoves' = g.validMoves
    /\ mustCapture' = g.mustCapture
    /\ captureChain' = g.captureChain
    /\ redPieces' = g.redPieces
    /\ bluePieces' = g.bluePieces
    /\ gameOver' = g.gameOver
    /\ result' = g.result

\* No relay runs beside a local match or beside the two pages of a match.
NoRelay ==
    /\ rooms = <<>>
    /\ conns = <<>>
    /\ event = <<>>
    /\ relayScript = <<>>
    /\ relayEvents = 0

\* The state after Game.init, with one of the opening lines still to play.
\* The match is local: no page of a networked match is open.
Init ==
    /\ pages = <<>>
    /\ netScript = <<>>
    /\ netMoves = 0
    /\ NoRelay
    /\ board = init.board
    /\ currentPlayer = init.currentPlayer
    /\ selectedPiece = init.selectedPiece
    /\ validMoves = init.validMoves
    /\ mustCapture = init.mustCapture
    /\ captureChain = init.captureChain
    /\ redPieces = init.redPieces
    /\ bluePieces = init.bluePieces
    /\ gameOver = init.gameOver
    /\ result = init.result
    /\ script \in openingLines
    /\ plies = 0

inOpening == script # <<>>

\* Game.init(player1, player2): a new match.
InitGame ==
    /\ ~inOpening
    /\ Becomes(init)
    /\ UNCHANGED <<script, plies>>
    /\ UNCHANGED <<netVars, relayVars>>

\* Game.selectPiece(row, col)
SelectPiece ==
    \E row \in Coord, col \in Coord :
        /\ inOpening => row = Head(script)[1] /\ col = Head(script)[2]
        /\ Becomes(selectPiece(G, row, col))
        /\ UNCHANGED <<script, plies>>
        /\ UNCHANGED <<netVars, relayVars>>

\* Game.movePiece(toRow, toCol)
MovePiece ==
    \E toRow \in Coord, toCol \in Coord :
        LET g == movePiece(G, toRow, toCol)
        IN /\ inOpening =>
                /\ toRow = Head(script)[3] /\ toCol = Head(script)[4]
                /\ selectedPiece = [row |-> Head(script)[1],
                                    col |-> Head(script)[2]]
                /\ g.result.success
           /\ (~inOpening /\ g.result.success) => plies < MaxPlies
           /\ Becomes(g)
           /\ script' = IF inOpening THEN Tail(script) ELSE script
           /\ plies' = IF ~inOpening /\ g.result.success
                       THEN plies + 1 ELSE plies
           /\ UNCHANGED <<netVars, relayVars>>

\* The board view cancels the selection.
CancelSelection ==
    /\ ~inOpening
    /\ Becomes(cancelSelection(G))
    /\ UNCHANGED <<script, plies>>
    /\ UNCHANGED <<netVars, relayVars>>

Next == InitGame \/ SelectPiece \/ MovePiece \/ CancelSelection

Spec == Init /\ [][Next]_vars

\* ----------------------------------------------------------- networked match
\* Two pages meet in one room of the relay and play matches in it. A page is
\* its engine, the drag flag of its board view, the messages the relay has
\* sent to it and it has not handled yet, the game-over timers it has set, the
\* records it has made of the match it plays, the synchronization errors it has shown, and its
\* session: the local color and the host flag of Multiplayer, the screen and
\* the lobby panel the App shows, and whether the game-over modal is open.
Peers == {1, 2}

\* Multiplayer.myPlayer: null (0) until createRoom sets 1 or joinRoom sets 2.
myPlayer(p) == pages[p].myPlayer

\* The messages a page gets from the relay. The page reads no field of
\* game_start and of player_joined but the type.
moveMessage(from, to) == [type |-> "move", from |-> from, to |-> to]
gameStart == [type |-> "game_start"]
playerJoinedNote == [type |-> "player_joined"]

\* The relay forwards a move to the other member of the room.
peerOf(p) == IF p = 1 THEN 2 ELSE 1

\* Multiplayer.isMyTurn()
isMyTurn(g, me) == g.currentPlayer = me

\* A handler uses what an engine call returned and the page keeps none of it.
afterCall(g) == [g EXCEPT !.result = init.result]

\* Game.selectedPiece = null; Game.validMoves = [];
deselect(g) == [g EXCEPT !.selectedPiece = null, !.validMoves = <<>>]

\* The engine of a page before its first Game.init: no board, no player.
blankGame ==
    [init EXCEPT !.board = [row \in Coord |-> [col \in Coord |-> EMPTY]],
                 !.currentPlayer = 0]

\* A page that has opened the lobby of the network mode.
lobbyPage ==
    [game |-> blankGame, isDragging |-> FALSE, inbox |-> <<>>, timers |-> 0,
     records |-> 0, syncErrors |-> 0, myPlayer |-> 0, isHost |-> FALSE,
     screen |-> "multiplayer-lobby", lobby |-> "options", modal |-> FALSE]

\* The button "create room": Multiplayer.createRoom, then the lobby waits.
onCreateRoom(pg) ==
    [pg EXCEPT !.isHost = TRUE, !.myPlayer = 1, !.lobby = "waiting"]

\* The button "join room": Multiplayer.joinRoom. The relay grants the join
\* when the room exists and has no client; otherwise the lobby shows its
\* options again.
onJoinRoom(pg, joinGranted) ==
    [pg EXCEPT !.isHost = FALSE, !.myPlayer = 2,
               !.lobby = IF joinGranted THEN "connected" ELSE "options"]

\* Multiplayer.onConnected: the host's lobby shows the player who joined.
onConnected(pg) == [pg EXCEPT !.lobby = "connected"]

\* Multiplayer.onGameStart: Game.init, Game.isMultiplayer = true, and the game
\* screen is shown, which makes the board view anew. The new match has no
\* record yet.
onGameStart(pg) ==
    [pg EXCEPT !.game = init, !.screen = "game", !.isDragging = FALSE,
               !.records = 0]

\* Multiplayer.startGame(): only the host asks the relay to start, and the
\* relay broadcasts game_start.
startGameRequest(pg) == IF pg.isHost THEN <<gameStart>> ELSE <<>>

\* App.playAgain() in a networked match: the modal is closed and the match is
\* started again through the relay.
playAgain(pg) == [pg EXCEPT !.modal = FALSE]

\* What a handler leaves: the page after it and the move messages it sent.
Done(pg, sent) == [page |-> pg, sent |-> sent]

\* Board.handlePieceClick(row, col) on a page whose local player is me.
handlePieceClick(pg, me, row, col) ==
    LET g == pg.game
        piece == g.board[row][col]
        isMyPieceColor == \/ (me = 1 /\ (piece = 1 \/ piece = 2))
                          \/ (me = 2 /\ (piece = 3 \/ piece = 4))
    IN IF g.gameOver THEN pg
       ELSE IF ~isMyTurn(g, me) THEN pg
       ELSE IF ~isMyPieceColor THEN pg
       ELSE IF g.selectedPiece = [row |-> row, col |-> col]
       THEN IF ~g.captureChain THEN [pg EXCEPT !.game = deselect(g)] ELSE pg
       ELSE IF g.selectedPiece # null
               /\ isCurrentPlayerPiece(g.currentPlayer, piece)
       THEN IF ~g.captureChain
            THEN [pg EXCEPT !.game = afterCall(selectPiece(g, row, col))]
            ELSE pg
       ELSE [pg EXCEPT !.game = afterCall(selectPiece(g, row, col))]

\* Board.handleCellClick(row, col): a move of the selected piece, sent to the
\* peer when the engine accepts it.
handleCellClick(pg, me, row, col) ==
    LET g == pg.game
        r == movePiece(g, row, col)
    IN IF g.gameOver THEN Done(pg, <<>>)
       ELSE IF g.board[row][col] # EMPTY
       THEN Done(handlePieceClick(pg, me, row, col), <<>>)
       ELSE IF g.selectedPiece = null THEN Done(pg, <<>>)
       ELSE IF ~isMyTurn(g, me) THEN Done(pg, <<>>)
       ELSE IF r.result.success
       THEN Done([pg EXCEPT !.game = afterCall(r),
                            !.timers = IF r.result.gameOver THEN @ + 1 ELSE @],
                 << moveMessage(g.selectedPiece,
                                [row |-> row, col |-> col]) >>)
       ELSE Done([pg EXCEPT !.game = afterCall(r)], <<>>)

\* The click listeners of a piece and of a cell.
onClick(pg, me, row, col) ==
    IF pg.isDragging THEN Done(pg, <<>>)
    ELSE handleCellClick(pg, me, row, col)

\* Board.handleCursorAction() with the cursor on (row, col).
handleCursorAction(pg, me, row, col) ==
    LET g == pg.game
        piece == g.board[row][col]
        isValidMove == \E i \in 1 .. Len(g.validMoves) :
                          g.validMoves[i].row = row /\ g.validMoves[i].col = col
    IN IF g.selectedPiece # null /\ isValidMove
       THEN handleCellClick(pg, me, row, col)
       ELSE IF isCurrentPlayerPiece(g.currentPlayer, piece)
       THEN Done(handlePieceClick(pg, me, row, col), <<>>)
       ELSE IF piece = EMPTY
       THEN handleCellClick(pg, me, row, col)
       ELSE Done(pg, <<>>)

\* Enter or Space on the game screen: the keydown listener of the App lets
\* the key through to the board only on the local player's turn.
onKeyEnter(pg, me, row, col) ==
    IF pg.game.gameOver THEN Done(pg, <<>>)
    ELSE IF ~isMyTurn(pg.game, me) THEN Done(pg, <<>>)
    ELSE handleCursorAction(pg, me, row, col)

\* Escape on the game screen, where the board handles it: the selection is
\* cancelled unless a capture chain is active.
onKeyEscape(pg, me) ==
    IF pg.game.gameOver THEN Done(pg, <<>>)
    ELSE IF ~isMyTurn(pg.game, me) THEN Done(pg, <<>>)
    ELSE Done([pg EXCEPT !.game = afterCall(cancelSelection(pg.game))], <<>>)

\* Board.onDragStart on the piece of (row, col).
onDragStart(pg, row, col) ==
    LET g == pg.game
        piece == g.board[row][col]
        r == selectPiece(g, row, col)
    IN IF g.gameOver THEN Done(pg, <<>>)
       ELSE IF ~isCurrentPlayerPiece(g.currentPlayer, piece) THEN Done(pg, <<>>)
       ELSE IF /\ g.captureChain
               /\ g.selectedPiece # null
               /\ (row # g.selectedPiece.row \/ col # g.selectedPiece.col)
       THEN Done(pg, <<>>)
       ELSE IF r.result.success
       THEN Done([pg EXCEPT !.game = afterCall(r), !.isDragging = TRUE], <<>>)
       ELSE Done([pg EXCEPT !.game = afterCall(r)], <<>>)

\* Board.cancelDrag()
cancelDrag(pg) ==
    [pg EXCEPT !.isDragging = FALSE,
               !.game = IF ~pg.game.captureChain
                        THEN deselect(pg.game) ELSE pg.game]

\* Board.onDragEnd with the pointer released over cell (row, col), or outside
\* the board when onCell is false. The handler sends nothing.
onDragEnd(pg, onCell, row, col) ==
    LET g == pg.game
        r == movePiece(g, row, col)
    IN IF ~pg.isDragging THEN Done(pg, <<>>)
       ELSE IF onCell /\ g.board[row][col] = EMPTY
       THEN IF r.result.success
            THEN Done([pg EXCEPT !.game = afterCall(r), !.isDragging = FALSE,
                                 !.timers = IF r.result.gameOver
                                            THEN @ + 1 ELSE @], <<>>)
            ELSE Done(cancelDrag([pg EXCEPT !.game = afterCall(r)]), <<>>)
       ELSE Done(cancelDrag(pg), <<>>)

\* Mutant: a move the engine refuses is dropped without a word.
onOpponentMove_Silent(pg, from, to) ==
    LET g == pg.game
        forced == [g EXCEPT
                     !.selectedPiece = [row |-> from.row, col |-> from.col],
                     !.validMoves = getValidMoves(g.board, g.currentPlayer,
                                        g.mustCapture, from.row, from.col)]
        r == movePiece(forced, to.row, to.col)
    IN [pg EXCEPT !.game = afterCall(r),
                  !.timers = IF r.result.success /\ r.result.gameOver
                             THEN @ + 1 ELSE @]

\* Multiplayer.onOpponentMove(from, to): the origin is selected by force and
\* the move is made; when the engine refuses it, the page shows a
\* synchronization error.
onOpponentMove(pg, from, to) ==
    LET g == pg.game
        forced == [g EXCEPT
                     !.selectedPiece = [row |-> from.row, col |-> from.col],
                     !.validMoves = getValidMoves(g.board, g.currentPlayer,
                                        g.mustCapture, from.row, from.col)]
        r == movePiece(forced, to.row, to.col)
    IN [pg EXCEPT !.game = afterCall(r),
                  !.timers = IF r.result.success /\ r.result.gameOver
                             THEN @ + 1 ELSE @,
                  !.syncErrors = IF r.result.success THEN @ ELSE @ + 1]

\* App.showGameOver(winner), run by a timer: Game.endGame records the match
\* with Storage.addMatch.
showGameOver(pg) ==
    [pg EXCEPT !.timers = @ - 1, !.records = @ + 1, !.modal = TRUE]

\* Multiplayer.handleMessage(event) on a page.
onMessage(pg, m) ==
    CASE m.type = "player_joined" -> onConnected(pg)
      [] m.type = "game_start" -> onGameStart(pg)
      [] m.type = "move" -> onOpponentMove(pg, m.from, m.to)
      [] OTHER -> pg

\* An opening line of a networked match is a sequence of events
\* <<page, handler, row, col>>. dragLine(p, line) is line played on page p by
\* drag and drop.
dragLine(p, line) ==
    [i \in 1 .. 2 * Len(line) |->
        IF i % 2 = 1
        THEN <<p, "dragStart", line[(i + 1) \div 2][1], line[(i + 1) \div 2][2]>>
        ELSE <<p, "dragEnd", line[i \div 2][3], line[i \div 2][4]>>]

\* Page 1 creates the room, page 2 joins it, page 1 starts the match and both
\* pages handle game_start.
lobbyLine ==
    << <<1, "create", 0, 0>>, <<2, "join", 0, 0>>, <<1, "message", 0, 0>>,
       <<1, "start", 0, 0>>, <<1, "message", 0, 0>>, <<2, "message", 0, 0>> >>

\* The host drags four moves and then clicks the capture 52-30, which is sent;
\* the joiner drags four moves, the last one a capture that ends the game on
\* its page, and its game-over timer runs. The host's move is still to arrive.
lateMoveLine ==
    dragLine(1, << <<5, 2, 4, 3>>, <<2, 1, 3, 0>>, <<6, 1, 5, 2>>,
                   <<3, 0, 4, 1>> >>)
    \o << <<1, "click", 5, 2>>, <<1, "click", 3, 0>> >>
    \o dragLine(2, << <<5, 0, 4, 1>>, <<2, 1, 3, 2>>, <<5, 4, 4, 3>>,
                      <<3, 2, 5, 4>> >>)
    \o << <<2, "show", 0, 0>> >>

\* The joiner drags a match up to a position with a BLUE king and BLUE to
\* move; the host has not moved.
kingLine ==
    dragLine(2, crownCaptureLine \o << <<5, 4, 7, 2>>, <<6, 5, 5, 6>> >>)

\* The joiner drags the RED man 52-43 on its page, which leaves BLUE to move
\* there; the host clicks 50-41, which is sent and still to arrive.
ownTurnLine ==
    dragLine(2, << <<5, 2, 4, 3>> >>)
    \o << <<1, "click", 5, 0>>, <<1, "click", 4, 1>> >>

netLines ==
    { <<>>, lobbyLine \o lateMoveLine, lobbyLine \o kingLine,
      lobbyLine \o ownTurnLine }

NetCols == 0 .. MaxNetCol

\* Both pages are in the lobby.
NetInit ==
    /\ pages = [p \in Peers |-> lobbyPage]
    /\ netScript \in netLines
    /\ netMoves = 0
    /\ board = init.board
    /\ currentPlayer = init.currentPlayer
    /\ selectedPiece = init.selectedPiece
    /\ validMoves = init.validMoves
    /\ mustCapture = init.mustCapture
    /\ captureChain = init.captureChain
    /\ redPieces = init.redPieces
    /\ bluePieces = init.bluePieces
    /\ gameOver = init.gameOver
    /\ result = init.result
    /\ script = <<>>
    /\ plies = 0
    /\ NoRelay

inNetOpening == netScript # <<>>

\* Handler `kind` runs on page p with input (row, col), leaves page pg and
\* sends the messages of sent, which the relay forwards to the other page.
Handles(p, kind, row, col, pg, sent) ==
    LET play == /\ pg.game.board # pages[p].game.board
                /\ pg.game.board # init.board
    IN /\ IF inNetOpening
          THEN Head(netScript) = <<p, kind, row, col>>
          ELSE col \in NetCols
       /\ (~inNetOpening /\ play) => netMoves < MaxNetMoves
       /\ pages' = [q \in Peers |->
                      IF q = p THEN pg
                      ELSE [pages[q] EXCEPT !.inbox = @ \o sent]]
       /\ netScript' = IF inNetOpening THEN Tail(netScript) ELSE netScript
       /\ netMoves' = IF ~inNetOpening /\ play THEN netMoves + 1 ELSE netMoves
       /\ UNCHANGED <<engineVars, relayVars>>

\* A click or a tap on a piece or on a cell.
Click ==
    \E p \in Peers, row \in Coord, col \in Coord :
        LET out == onClick(pages[p], myPlayer(p), row, col)
        IN /\ pages[p].screen = "game"
           /\ Handles(p, "click", row, col, out.page, out.sent)

\* Enter or Space with the cursor on a cell.
KeyEnter ==
    \E p \in Peers, row \in Coord, col \in Coord :
        LET out == onKeyEnter(pages[p], myPlayer(p), row, col)
        IN /\ pages[p].screen = "game"
           /\ Handles(p, "key", row, col, out.page, out.sent)

\* Escape
KeyEscape ==
    \E p \in Peers :
        LET out == onKeyEscape(pages[p], myPlayer(p))
        IN /\ pages[p].screen = "game"
           /\ Handles(p, "escape", 0, 0, out.page, out.sent)

\* A piece is grabbed.
DragStart ==
    \E p \in Peers, row \in Coord, col \in Coord :
        LET out == onDragStart(pages[p], row, col)
        IN /\ pages[p].screen = "game"
           /\ Handles(p, "dragStart", row, col, out.page, out.sent)

\* The grabbed piece is dropped on a cell.
DragEnd ==
    \E p \in Peers, row \in Coord, col \in Coord :
        LET out == onDragEnd(pages[p], TRUE, row, col)
        IN /\ pages[p].screen = "game"
           /\ Handles(p, "dragEnd", row, col, out.page, out.sent)

\* The grabbed piece is dropped outside the board.
DragOut ==
    \E p \in Peers :
        LET out == onDragEnd(pages[p], FALSE, 0, 0)
        IN /\ pages[p].screen = "game"
           /\ Handles(p, "dragOut", 0, 0, out.page, out.sent)

\* Multiplayer.handleMessage: the next message of the relay is handled.
Receive ==
    \E p \in Peers :
        /\ pages[p].inbox # <<>>
        /\ LET m == Head(pages[p].inbox)
               pg == [pages[p] EXCEPT !.inbox = Tail(@)]
           IN Handles(p, "message", 0, 0, onMessage(pg, m), <<>>)

\* The button "create room" of the lobby.
CreateRoomClick ==
    \E p \in Peers :
        /\ pages[p].screen = "multiplayer-lobby"
        /\ pages[p].lobby = "options"
        /\ Handles(p, "create", 0, 0, onCreateRoom(pages[p]), <<>>)

\* The button "join room" of the lobby, with the code of the peer's room: the
\* relay grants the join when the peer waits in a room it created, and tells
\* the peer.
JoinRoomClick ==
    \E p \in Peers :
        LET host == pages[peerOf(p)]
            joinGranted == host.isHost /\ host.lobby = "waiting"
        IN /\ pages[p].screen = "multiplayer-lobby"
           /\ pages[p].lobby = "options"
           /\ Handles(p, "join", 0, 0, onJoinRoom(pages[p], joinGranted),
                      IF joinGranted THEN <<playerJoinedNote>> ELSE <<>>)

\* The button "start" of the lobby once both players are in the room. It is
\* pressed again only when the page has handled what the relay sent it.
StartClick ==
    \E p \in Peers :
        LET sent == startGameRequest(pages[p])
        IN /\ pages[p].screen = "multiplayer-lobby"
           /\ pages[p].lobby = "connected"
           /\ pages[p].inbox = <<>>
           /\ Handles(p, "start", 0, 0,
                      [pages[p] EXCEPT !.inbox = @ \o sent], sent)

\* The button "play again" of the game-over modal.
PlayAgain ==
    \E p \in Peers :
        LET sent == startGameRequest(pages[p])
            pg == playAgain(pages[p])
        IN /\ pages[p].screen = "game"
           /\ pages[p].modal
           /\ Handles(p, "again", 0, 0, [pg EXCEPT !.inbox = @ \o sent], sent)

\* A game-over timer runs.
ShowGameOver ==
    \E p \in Peers :
        /\ pages[p].timers > 0
        /\ Handles(p, "show", 0, 0, showGameOver(pages[p]), <<>>)

NetNext ==
    \/ Click \/ KeyEnter \/ KeyEscape \/ DragStart \/ DragEnd \/ DragOut
    \/ Receive \/ ShowGameOver
    \/ CreateRoomClick \/ JoinRoomClick \/ StartClick \/ PlayAgain

SpecNet == NetInit /\ [][NetNext]_vars

\* ------------------------------------------------------------------- relay
\* The relay server (src/server.js): the room map and the connections, each
\* with the attributes the server keeps on its socket. One action is one
\* event of a connection, handled to its end before the next one (the server
\* is a single event loop and no handler awaits anything). `event` keeps the
\* event handled last and the messages its handler sent, in order.
Conns == 1 .. MaxConns

\* A room code is a string, kept as the sequence of its characters: two codes
\* as generateRoomCode makes them, and the first of them in lower case.
ABC123 == <<"A", "B", "C", "1", "2", "3">>
XYZ789 == <<"X", "Y", "Z", "7", "8", "9">>
abc123 == <<"a", "b", "c", "1", "2", "3">>

RoomCodes == {ABC123, XYZ789, abc123}

\* String.prototype.toUpperCase on the characters room codes are typed with.
lowerCase == <<"a", "b", "c", "d", "e", "f", "g", "h", "i", "j", "k", "l", "m",
               "n", "o", "p", "q", "r", "s", "t", "u", "v", "w", "x", "y", "z">>
upperCase == <<"A", "B", "C", "D", "E", "F", "G", "H", "I", "J", "K", "L", "M",
               "N", "O", "P", "Q", "R", "S", "T", "U", "V", "W", "X", "Y", "Z">>

toUpperCase(str) ==
    [i \in DOMAIN str |->
        IF \E j \in DOMAIN lowerCase : lowerCase[j] = str[i]
        THEN upperCase[CHOOSE j \in DOMAIN lowerCase : lowerCase[j] = str[i]]
        ELSE str[i]]

PlayerNames == {"Ana", "Bia"}

\* from and to of a move message: an opening move and one no engine accepts.
RelayMoves ==
    { [from |-> [row |-> 5, col |-> 0], to |-> [row |-> 4, col |-> 1]],
      [from |-> [row |-> 0, col |-> 0], to |-> [row |-> 7, col |-> 7]] }

\* JavaScript's null for a connection, a room code and a name.
nullConn == 0
nullCode == <<"<null>">>
nullName == "<null>"

\* The messages the server sends.
errorMessage(text) == [type |-> "error", message |-> text]
roomCreated(roomCode) == [type |-> "room_created", roomCode |-> roomCode]
joinSuccess(hostName) == [type |-> "join_success", hostName |-> hostName]
playerJoined(playerName) == [type |-> "player_joined", playerName |-> playerName]
gameStartMessage(room) ==
    [type |-> "game_start", hostName |-> room.hostName,
     clientName |-> room.clientName]
disconnectMessage == [type |-> "opponent_disconnected"]

ROOM_EXISTS == "Código de sala já existe"
ROOM_NOT_FOUND == "Sala não encontrada"
ROOM_FULL == "Sala já está cheia"
ROOM_INCOMPLETE == "Sala incompleta"

\* wss.on('connection'): the attributes of a new socket.
newConn ==
    [state |-> "open", roomCode |-> nullCode, playerName |-> "Jogador",
     isHost |-> FALSE]

\* A connection that has not been made yet.
noConn == [newConn EXCEPT !.state = "none"]

\* The relay while a handler runs: rooms, connections and the messages sent.
Relay == [rooms |-> rooms, conns |-> conns, sent |-> <<>>]

\* ws.send(JSON.stringify(msg)) on connection to. ws 8 discards what is sent
\* on a closed socket without raising; `sent` lists the calls.
send(r, to, msg) == [r EXCEPT !.sent = Append(@, [to |-> to, msg |-> msg])]

\* rooms.set(roomCode, room)
roomsSet(rs, roomCode, room) ==
    [k \in DOMAIN rs \cup {roomCode} |-> IF k = roomCode THEN room ELSE rs[k]]

\* rooms.delete(roomCode)
roomsDelete(rs, roomCode) == [k \in DOMAIN rs \ {roomCode} |-> rs[k]]

\* Mutant: an existing room is replaced.
createRoom_Overwrites(r, ws, message) ==
    LET roomCode == message.roomCode
        playerName == message.playerName
        room == [host |-> ws, client |-> nullConn, hostName |-> playerName,
                 clientName |-> nullName, gameStarted |-> FALSE]
    IN send([r EXCEPT !.rooms = roomsSet(@, roomCode, room),
                      !.conns[ws].roomCode = roomCode,
                      !.conns[ws].playerName = playerName,
                      !.conns[ws].isHost = TRUE],
            ws, roomCreated(roomCode))

\* createRoom(ws, message)
createRoom(r, ws, message) ==
    LET roomCode == message.roomCode
        playerName == message.playerName
        room == [host |-> ws, client |-> nullConn, hostName |-> playerName,
                 clientName |-> nullName, gameStarted |-> FALSE]
    IN IF roomCode \in DOMAIN r.rooms
       THEN send(r, ws, errorMessage(ROOM_EXISTS))
       ELSE send([r EXCEPT !.rooms = roomsSet(@, roomCode, room),
                           !.conns[ws].roomCode = roomCode,
                           !.conns[ws].playerName = playerName,
                           !.conns[ws].isHost = TRUE],
                 ws, roomCreated(roomCode))

\* Mutant: the host is not told that a player joined.
joinRoom_HostNotTold(r, ws, message) ==
    LET roomCode == message.roomCode
        playerName == message.playerName
    IN IF roomCode \notin DOMAIN r.rooms
       THEN send(r, ws, errorMessage(ROOM_NOT_FOUND))
       ELSE IF r.rooms[roomCode].client # nullConn
       THEN send(r, ws, errorMessage(ROOM_FULL))
       ELSE send([r EXCEPT !.rooms[roomCode].client = ws,
                           !.rooms[roomCode].clientName = playerName,
                           !.conns[ws].roomCode = roomCode,
                           !.conns[ws].playerName = playerName,
                           !.conns[ws].isHost = FALSE],
                 ws, joinSuccess(r.rooms[roomCode].hostName))

\* Mutant: a join takes the client slot from whoever holds it.
joinRoom_TakesOver(r, ws, message) ==
    LET roomCode == message.roomCode
        playerName == message.playerName
    IN IF roomCode \notin DOMAIN r.rooms
       THEN send(r, ws, errorMessage(ROOM_NOT_FOUND))
       ELSE LET joined == [r EXCEPT !.rooms[roomCode].client = ws,
                                    !.rooms[roomCode].clientName = playerName,
                                    !.conns[ws].roomCode = roomCode,
                                    !.conns[ws].playerName = playerName,
                                    !.conns[ws].isHost = FALSE]
                room == joined.rooms[roomCode]
            IN send(send(joined, ws, joinSuccess(room.hostName)),
                    room.host, playerJoined(playerName))

\* joinRoom(ws, message)
joinRoom(r, ws, message) ==
    LET roomCode == message.roomCode
        playerName == message.playerName
    IN IF roomCode \notin DOMAIN r.rooms
       THEN send(r, ws, errorMessage(ROOM_NOT_FOUND))
       ELSE IF r.rooms[roomCode].client # nullConn
       THEN send(r, ws, errorMessage(ROOM_FULL))
       ELSE LET joined == [r EXCEPT !.rooms[roomCode].client = ws,
                                    !.rooms[roomCode].clientName = playerName,
                                    !.conns[ws].roomCode = roomCode,
                                    !.conns[ws].playerName = playerName,
                                    !.conns[ws].isHost = FALSE]
                room == joined.rooms[roomCode]
            IN send(send(joined, ws, joinSuccess(room.hostName)),
                    room.host, playerJoined(playerName))

\* Mutant: only the host is told that the game starts.
startGame_HostOnly(r, ws, message) ==
    LET roomCode == message.roomCode
    IN IF roomCode \notin DOMAIN r.rooms
          \/ r.rooms[roomCode].client = nullConn
       THEN send(r, ws, errorMessage(ROOM_INCOMPLETE))
       ELSE LET started == [r EXCEPT !.rooms[roomCode].gameStarted = TRUE]
                room == started.rooms[roomCode]
            IN send(started, room.host, gameStartMessage(room))

\* startGame(ws, message)
startGame(r, ws, message) ==
    LET roomCode == message.roomCode
    IN IF roomCode \notin DOMAIN r.rooms
          \/ r.rooms[roomCode].client = nullConn
       THEN send(r, ws, errorMessage(ROOM_INCOMPLETE))
       ELSE LET started == [r EXCEPT !.rooms[roomCode].gameStarted = TRUE]
                room == started.rooms[roomCode]
            IN send(send(started, room.host, gameStartMessage(room)),
                    room.client, gameStartMessage(room))

\* broadcastMove(ws, message)
broadcastMove(r, ws, message) ==
    LET roomCode == message.roomCode
    IN IF roomCode \notin DOMAIN r.rooms THEN r
       ELSE LET room == r.rooms[roomCode]
            IN IF r.conns[ws].isHost /\ room.client # nullConn
               THEN send(r, room.client, moveMessage(message.from, message.to))
               ELSE IF ~r.conns[ws].isHost /\ room.host # nullConn
               THEN send(r, room.host, moveMessage(message.from, message.to))
               ELSE r

\* handleMessage(ws, message)
handleMessage(r, ws, message) ==
    CASE message.type = "create_room" -> createRoom(r, ws, message)
      [] message.type = "join_room" -> joinRoom(r, ws, message)
      [] message.type = "start_game" -> startGame(r, ws, message)
      [] message.type = "move" -> broadcastMove(r, ws, message)
      [] OTHER -> r

\* ws.on('close'): handleDisconnect(ws) on the closed socket.
handleDisconnect(r, ws) ==
    LET roomCode == r.conns[ws].roomCode
        closed == [r EXCEPT !.conns[ws].state = "closed"]
    IN IF roomCode = nullCode \/ roomCode = <<>> THEN closed
       ELSE IF roomCode \notin DOMAIN r.rooms THEN closed
       ELSE LET room == r.rooms[roomCode]
            IN IF r.conns[ws].isHost
               THEN LET told == IF room.client # nullConn
                                THEN send(closed, room.client, disconnectMessage)
                                ELSE closed
                    IN [told EXCEPT !.rooms = roomsDelete(@, roomCode)]
               ELSE LET told == IF room.host # nullConn
                                THEN send(closed, room.host, disconnectMessage)
                                ELSE closed
                    IN [told EXCEPT !.rooms[roomCode].client = nullConn,
                                    !.rooms[roomCode].clientName = nullName]

\* The events of an opening line of the relay.
connection(c) == [conn |-> c, msg |-> [type |-> "connection"]]
close(c) == [conn |-> c, msg |-> [type |-> "close"]]
create_room(c, roomCode, playerName) ==
    [conn |-> c, msg |-> [type |-> "create_room", roomCode |-> roomCode,
                          playerName |-> playerName]]
join_room(c, roomCode, playerName) ==
    [conn |-> c, msg |-> [type |-> "join_room", roomCode |-> roomCode,
                          playerName |-> playerName]]
start_game(c, roomCode) ==
    [conn |-> c, msg |-> [type |-> "start_game", roomCode |-> roomCode]]
move(c, roomCode, m) ==
    [conn |-> c, msg |-> [type |-> "move", roomCode |-> roomCode,
                          from |-> m.from, to |-> m.to]]

\* Multiplayer.joinRoom(roomCode, playerName): the join_room message the page
\* sends when its socket opens.
joinRoomRequest(roomCode, playerName) ==
    [type |-> "join_room", roomCode |-> toUpperCase(roomCode),
     playerName |-> playerName]

\* Connection 1 hosts a room that connection 2 joined, and the match runs.
matchLine ==
    << connection(1), connection(2), connection(3),
       create_room(1, ABC123, "Ana"), join_room(2, ABC123, "Bia"),
       start_game(1, ABC123) >>

\* Connection 2 joined the room of connection 1 and then created a room of
\* its own.
twoRoomsLine ==
    << connection(1), connection(2), connection(3),
       create_room(1, ABC123, "Ana"), join_room(2, ABC123, "Bia"),
       create_room(2, XYZ789, "Bia") >>

\* Connection 2 joined the room of connection 1, which then closed; connection
\* 3 created a room with the same code and connection 4 joined it.
reusedCodeLine ==
    << connection(1), connection(2), connection(3), connection(4),
       create_room(1, ABC123, "Ana"), join_room(2, ABC123, "Bia"),
       close(1),
       create_room(3, ABC123, "Ana"), join_room(4, ABC123, "Bia") >>

relayLines == { <<>>, matchLine, twoRoomsLine, reusedCodeLine }

\* The server listens: no room and no connection. The engine and the pages
\* play no part.
RelayInit ==
    /\ rooms = [k \in {} |-> 0]
    /\ conns = [c \in Conns |-> noConn]
    /\ event = [conn |-> nullConn, msg |-> [type |-> "listen"], sent |-> <<>>]
    /\ relayScript \in relayLines
    /\ relayEvents = 0
    /\ pages = <<>>
    /\ netScript = <<>>
    /\ netMoves = 0
    /\ board = init.board
    /\ currentPlayer = init.currentPlayer
    /\ selectedPiece = init.selectedPiece
    /\ validMoves = init.validMoves
    /\ mustCapture = init.mustCapture
    /\ captureChain = init.captureChain
    /\ redPieces = init.redPieces
    /\ bluePieces = init.bluePieces
    /\ gameOver = init.gameOver
    /\ result = init.result
    /\ script = <<>>
    /\ plies = 0

inRelayOpening == relayScript # <<>>

\* Event msg of connection c is handled and leaves the relay as r.
Occurs(c, msg, r) ==
    LET counted == ~inRelayOpening /\ msg.type # "connection"
    IN /\ inRelayOpening => Head(relayScript) = [conn |-> c, msg |-> msg]
       /\ counted => relayEvents < MaxRelayEvents
       /\ rooms' = r.rooms
       /\ conns' = r.conns
       /\ event' = [conn |-> c, msg |-> msg, sent |-> r.sent]
       /\ relayScript' = IF inRelayOpening THEN Tail(relayScript) ELSE relayScript
       /\ relayEvents' = IF counted THEN relayEvents + 1 ELSE relayEvents
       /\ UNCHANGED <<engineVars, netVars>>

\* A client connects. Connections are numbered in the order they are made.
Connect ==
    \E c \in Conns :
        /\ conns[c].state = "none"
        /\ \A d \in Conns : d < c => conns[d].state # "none"
        /\ Occurs(c, connection(c).msg, [Relay EXCEPT !.conns[c] = newConn])

\* A create_room message arrives.
CreateRoom ==
    \E c \in Conns, roomCode \in RoomCodes, playerName \in PlayerNames :
        LET msg == create_room(c, roomCode, playerName).msg
        IN /\ conns[c].state = "open"
           /\ Occurs(c, msg, handleMessage(Relay, c, msg))

\* A join_room message arrives: written by any client, or by joinRoom of the
\* page for the code its user typed.
JoinRoom ==
    \E c \in Conns, roomCode \in RoomCodes, playerName \in PlayerNames :
        \E msg \in { join_room(c, roomCode, playerName).msg,
                     joinRoomRequest(roomCode, playerName) } :
            /\ conns[c].state = "open"
            /\ Occurs(c, msg, handleMessage(Relay, c, msg))

\* A start_game message arrives.
StartGame ==
    \E c \in Conns, roomCode \in RoomCodes :
        LET msg == start_game(c, roomCode).msg
        IN /\ conns[c].state = "open"
           /\ Occurs(c, msg, handleMessage(Relay, c, msg))

\* A move message arrives.
Move ==
    \E c \in Conns, roomCode \in RoomCodes, m \in RelayMoves :
        LET msg == move(c, roomCode, m).msg
        IN /\ conns[c].state = "open"
           /\ Occurs(c, msg, handleMessage(Relay, c, msg))

\* A connection closes.
Close ==
    \E c \in Conns :
        /\ conns[c].state = "open"
        /\ Occurs(c, close(c).msg, handleDisconnect(Relay, c))

RelayNext == Connect \/ CreateRoom \/ JoinRoom \/ StartGame \/ Move \/ Close

SpecRelay == RelayInit /\ [][RelayNext]_vars

\* ------------------------------------------------------------------- rules
\* The rules of the game stated on the board alone, independently of the
\* engine's operators: what the claims below compare the engine with.
ownerOf(piece) ==
    IF piece = RED \/ piece = RED_KING THEN 1
    ELSE IF piece = BLUE \/ piece = BLUE_KING THEN 2
    ELSE 0

otherPlayer(p) == IF p = 1 THEN 2 ELSE 1

Diagonals == { <<dr, dc>> : dr \in {0 - 1, 1}, dc \in {0 - 1, 1} }

\* A man moves toward the far rank of its color, a king in every direction.
mayGo(piece, d) ==
    \/ piece = RED_KING \/ piece = BLUE_KING
    \/ (piece = RED /\ d[1] = 0 - 1)
    \/ (piece = BLUE /\ d[1] = 1)

onBoard(r, c) == r \in Coord /\ c \in Coord

\* The captures of the piece on (r, c), as the moves getValidMoves reports.
rulesCaptures(b, r, c) ==
    { [row |-> r + 2 * d[1], col |-> c + 2 * d[2], capture |-> TRUE,
       capturedRow |-> r + d[1], capturedCol |-> c + d[2]] :
      d \in { e \in Diagonals :
                /\ mayGo(b[r][c], e)
                /\ onBoard(r + 2 * e[1], c + 2 * e[2])
                /\ ownerOf(b[r + e[1]][c + e[2]]) = otherPlayer(ownerOf(b[r][c]))
                /\ b[r + 2 * e[1]][c + 2 * e[2]] = EMPTY } }

\* The simple moves of the piece on (r, c).
rulesSteps(b, r, c) ==
    { <<r + d[1], c + d[2]>> :
      d \in { e \in Diagonals :
                /\ mayGo(b[r][c], e)
                /\ onBoard(r + e[1], c + e[2])
                /\ b[r + e[1]][c + e[2]] = EMPTY } }

canCapture(b, r, c) == b[r][c] # EMPTY /\ rulesCaptures(b, r, c) # {}

playerCanCapture(b, p) ==
    \E r \in Coord, c \in Coord : ownerOf(b[r][c]) = p /\ canCapture(b, r, c)

\* Player p has a legal move: a capture, or, when no piece of p can capture,
\* a simple move.
hasLegalMove(b, p) ==
    \E r \in Coord, c \in Coord :
        /\ ownerOf(b[r][c]) = p
        /\ (rulesCaptures(b, r, c) # {} \/ rulesSteps(b, r, c) # {})

hasPieces(b, p) == \E r \in Coord, c \in Coord : ownerOf(b[r][c]) = p

\* The last call was a successful movePiece.
moved == result.op = "movePiece" /\ result.success

\* ------------------------------------------------------------------ claims
\* C1: movePiece reports gameOver only when, after the move, some player has
\* no pieces or the player who would move next (the opponent of the mover) has
\* no legal move; so a capture that does not continue a chain and leaves the
\* opponent with pieces and a legal move does not end the game.
\* (When movePiece ends the game, currentPlayer is still the mover.)
C1_GameOverOnlyWhenDecided ==
    (moved /\ result.gameOver) =>
        \/ redPieces = 0
        \/ bluePieces = 0
        \/ ~hasLegalMove(board, otherPlayer(currentPlayer))

\* C2: after every completed turn an opponent that has pieces but no legal
\* move has lost and the mover has won; so while the game is not over and no
\* chain is active, the current player has a legal move.
C2_NoStuckPlayer ==
    /\ (~gameOver /\ ~captureChain) => hasLegalMove(board, currentPlayer)
    /\ (moved /\ result.gameOver /\ redPieces > 0 /\ bluePieces > 0
          /\ ~hasLegalMove(board, otherPlayer(currentPlayer)))
       => result.winner = currentPlayer

\* C3: when a capture removes the last piece of the opponent, movePiece
\* returns gameOver with the capturing player as winner and sets gameOver,
\* whether or not the capturing piece was crowned and whether or not the
\* mover can still move.
C3_LastPieceCapturedWins ==
    /\ (redPieces = 0 \/ bluePieces = 0) => gameOver
    /\ (moved /\ result.captured /\ bluePieces = 0) =>
          result.gameOver /\ result.winner = 1 /\ currentPlayer = 1
    /\ (moved /\ result.captured /\ redPieces = 0) =>
          result.gameOver /\ result.winner = 2 /\ currentPlayer = 2

\* A crowning capture has just removed the last BLUE piece.
C3_Witness ==
    /\ moved /\ result.captured /\ result.crowned
    /\ bluePieces = 0 /\ ~hasPieces(board, 2)
    /\ result.gameOver /\ result.winner = 1

\* A step of movePiece that moved a piece, and the squares it moved between.
moveStep == result'.op = "movePiece" /\ result'.success /\ board' # board

landing ==
    CHOOSE sq \in Coord \X Coord :
        board[sq[1]][sq[2]] = EMPTY /\ board'[sq[1]][sq[2]] # EMPTY

origin ==
    CHOOSE sq \in Coord \X Coord :
        /\ ownerOf(board[sq[1]][sq[2]]) = currentPlayer
        /\ board'[sq[1]][sq[2]] = EMPTY

movesOf(seq) == { seq[i] : i \in 1 .. Len(seq) }

\* C4: while some piece of the current player has a capturing move,
\* selectPiece returns false for every piece of that player that has none, and
\* the next successful movePiece of the turn is a capture.
C4_MandatoryCapture ==
    /\ [](playerCanCapture(board, currentPlayer) =>
            \A r \in Coord, c \in Coord :
                (ownerOf(board[r][c]) = currentPlayer /\ ~canCapture(board, r, c))
                    => ~selectPiece(G, r, c).result.success)
    /\ [][(moveStep /\ playerCanCapture(board, currentPlayer))
            => (result'.captured /\ redPieces' + bluePieces'
                                      = redPieces + bluePieces - 1)]_vars

\* A capture is mandatory, a piece that cannot capture has just been refused.
C4_Witness ==
    /\ playerCanCapture(board, currentPlayer)
    /\ ~gameOver /\ ~captureChain
    /\ result.op = "selectPiece" /\ ~result.success
    /\ \E r \in Coord, c \in Coord :
          /\ ownerOf(board[r][c]) = currentPlayer
          /\ ~canCapture(board, r, c)
          /\ rulesSteps(board, r, c) # {}

\* A turn has just started: init, or a movePiece that passed the turn.
turnStart ==
    \/ result.op = "init"
    \/ (moved /\ ~result.continueCapture /\ ~result.gameOver)

\* C5: at every turn start mustCapture is true if and only if some piece of
\* the current player has a capturing move on the board.
C5_MustCaptureAtTurnStart ==
    turnStart => (mustCapture <=> playerCanCapture(board, currentPlayer))

\* A turn starts with a mandatory capture.
C5_Witness ==
    turnStart /\ mustCapture /\ playerCanCapture(board, currentPlayer)

\* C6: after a successful capturing movePiece that does not promote: if a
\* further capture exists from the landing square the engine is in chain mode,
\* the landing square is selected, validMoves is exactly the captures from
\* there and currentPlayer is unchanged; otherwise the selection and the chain
\* are cleared.
C6_ChainAfterCapture ==
    [][(moveStep /\ result'.captured /\ ~result'.crowned) =>
         IF canCapture(board', landing[1], landing[2])
         THEN /\ captureChain'
              /\ selectedPiece' = [row |-> landing[1], col |-> landing[2]]
              /\ movesOf(validMoves') = rulesCaptures(board', landing[1], landing[2])
              /\ Len(validMoves') = Cardinality(movesOf(validMoves'))
              /\ currentPlayer' = currentPlayer
              /\ result'.continueCapture
         ELSE /\ ~captureChain'
              /\ selectedPiece' = null
              /\ validMoves' = <<>>
              /\ ~result'.continueCapture]_vars

\* A capture has left the capturing man next to a further capture.
C6_Witness ==
    /\ moved /\ result.captured /\ ~result.crowned /\ result.continueCapture
    /\ captureChain
    /\ selectedPiece # null
    /\ canCapture(board, selectedPiece.row, selectedPiece.col)

\* C7: while a capture chain is active only the piece of the chain can be
\* selected or moved, every successful movePiece is a capture, and
\* currentPlayer does not change while the chain lasts; a match leaves the
\* chain only by ending or by passing the turn to the other player.
C7_ChainIsExclusive ==
    /\ [](captureChain =>
            /\ selectedPiece # null
            /\ ownerOf(board[selectedPiece.row][selectedPiece.col]) = currentPlayer
            /\ validMoves # <<>>
            /\ \A i \in 1 .. Len(validMoves) : validMoves[i].capture
            /\ \A r \in Coord, c \in Coord :
                  selectPiece(G, r, c).result.success
                      => [row |-> r, col |-> c] = selectedPiece)
    /\ [][(captureChain /\ result'.op # "init") =>
            /\ selectedPiece' # selectedPiece => moveStep
            /\ moveStep =>
                  /\ result'.captured
                  /\ origin = <<selectedPiece.row, selectedPiece.col>>
            /\ captureChain' => currentPlayer' = currentPlayer
            /\ ~captureChain' =>
                  (gameOver' \/ currentPlayer' = otherPlayer(currentPlayer))]_vars

\* During a chain another piece of the current player has been refused.
C7_Witness ==
    /\ captureChain
    /\ result.op = "selectPiece" /\ ~result.success
    /\ selectedPiece # null

\* C8: a movePiece that crowns a man never leaves the engine in chain mode:
\* the selection and the chain are cleared and the turn ends, even if the new
\* king has a capture available from its landing square.
C8_PromotionEndsTurn ==
    [][(moveStep /\ board[origin[1]][origin[2]] \in {RED, BLUE}
          /\ isKing(board'[landing[1]][landing[2]])) =>
         /\ ~captureChain'
         /\ selectedPiece' = null
         /\ validMoves' = <<>>
         /\ ~result'.continueCapture
         /\ (gameOver' \/ currentPlayer' = otherPlayer(currentPlayer))]_vars

\* A capture has crowned a man whose landing square offers a further capture.
C8_Witness ==
    /\ moved /\ result.captured /\ result.crowned
    /\ ~gameOver /\ ~captureChain /\ selectedPiece = null
    /\ \E c \in Coord :
          \/ /\ currentPlayer = 1 /\ board[BOARD_SIZE - 1][c] = BLUE_KING
             /\ canCapture(board, BOARD_SIZE - 1, c)
          \/ /\ currentPlayer = 2 /\ board[0][c] = RED_KING
             /\ canCapture(board, 0, c)

menOf(b, man) ==
    Cardinality({ sq \in Coord \X Coord : b[sq[1]][sq[2]] = man })

\* C9: a man that lands on the farthest rank for its color becomes a king of
\* the same color in the same movePiece: no RED man is on row 0, no BLUE man
\* on row 7, and a king never reverts to a man.
C9_Promotion ==
    /\ [](\A c \in Coord : board[0][c] # RED /\ board[BOARD_SIZE - 1][c] # BLUE)
    /\ [][moveStep =>
            /\ ownerOf(board'[landing[1]][landing[2]])
                   = ownerOf(board[origin[1]][origin[2]])
            /\ isKing(board[origin[1]][origin[2]])
                   => board'[landing[1]][landing[2]] = board[origin[1]][origin[2]]
            /\ (board[origin[1]][origin[2]] = RED /\ landing[1] = 0)
                   => board'[landing[1]][landing[2]] = RED_KING
            /\ (board[origin[1]][origin[2]] = BLUE /\ landing[1] = BOARD_SIZE - 1)
                   => board'[landing[1]][landing[2]] = BLUE_KING
            /\ menOf(board', RED) <= menOf(board, RED)
            /\ menOf(board', BLUE) <= menOf(board, BLUE)]_vars

\* A BLUE man has been crowned and a king stands off its promotion rank.
C9_Witness ==
    /\ \E r \in Coord, c \in Coord : board[r][c] = BLUE_KING
    /\ \E r \in 1 .. (BOARD_SIZE - 2), c \in Coord : isKing(board[r][c])

\* C10: movePiece without an active selection, or to a cell that is not among
\* validMoves, returns failure and leaves board, currentPlayer, the piece
\* counters, the selection, validMoves, captureChain, mustCapture and gameOver
\* unchanged.
C10_RejectedMoveChangesNothing ==
    \A toRow \in Coord, toCol \in Coord :
        (\/ selectedPiece = null
         \/ \A i \in 1 .. Len(validMoves) :
               validMoves[i].row # toRow \/ validMoves[i].col # toCol)
        => LET g == movePiece(G, toRow, toCol)
           IN /\ ~g.result.success
              /\ g.board = board
              /\ g.currentPlayer = currentPlayer
              /\ g.redPieces = redPieces
              /\ g.bluePieces = bluePieces
              /\ g.selectedPiece = selectedPiece
              /\ g.validMoves = validMoves
              /\ g.captureChain = captureChain
              /\ g.mustCapture = mustCapture
              /\ g.gameOver = gameOver

\* A move to a cell outside validMoves has been rejected, the selection stays.
C10_Witness ==
    /\ result.op = "movePiece" /\ ~result.success
    /\ selectedPiece # null /\ validMoves # <<>>

\* C11: a selectPiece call that returns false leaves the whole engine state
\* unchanged; a selection made before and its validMoves are still in place.
C11_RejectedSelectChangesNothing ==
    \A row \in Coord, col \in Coord :
        LET g == selectPiece(G, row, col)
        IN ~g.result.success =>
              /\ g.board = board
              /\ g.currentPlayer = currentPlayer
              /\ g.selectedPiece = selectedPiece
              /\ g.validMoves = validMoves
              /\ g.mustCapture = mustCapture
              /\ g.captureChain = captureChain
              /\ g.redPieces = redPieces
              /\ g.bluePieces = bluePieces
              /\ g.gameOver = gameOver

\* The engine of page p.
gameOf(p) == pages[p].game

\* C12: in a match played through selectPiece, movePiece and inbound opponent
\* moves, every cell holds one of the five cell values, every piece stands on
\* a square with (row + col) odd, and a move (any step of a page but the
\* Game.init of a new match) puts a piece only on a dark cell that was empty.
C12_PiecesOnDarkSquares ==
    /\ [](\A p \in Peers, r \in Coord, c \in Coord :
            /\ gameOf(p).board[r][c] \in {EMPTY, RED, BLUE, RED_KING, BLUE_KING}
            /\ gameOf(p).board[r][c] # EMPTY => (r + c) % 2 = 1)
    /\ [][\A p \in Peers, r \in Coord, c \in Coord :
            (/\ gameOf(p)' # init
             /\ gameOf(p)'.board[r][c] # gameOf(p).board[r][c]
             /\ gameOf(p)'.board[r][c] # EMPTY)
            => (gameOf(p).board[r][c] = EMPTY /\ (r + c) % 2 = 1)]_vars

\* The joiner's king has captured off its promotion rank, the move was sent,
\* and the host's page has handled it.
C12_Witness ==
    /\ \E r \in 1 .. (BOARD_SIZE - 2), c \in Coord :
          gameOf(2).board[r][c] = BLUE_KING
    /\ gameOf(2).redPieces < 10
    /\ pages[1].inbox = <<>>
    /\ gameOf(1).selectedPiece = [row |-> 7, col |-> 2]

\* The start position, square by square.
startCell(row, col) ==
    IF (row + col) % 2 = 0 THEN EMPTY
    ELSE IF row \in {0, 1, 2} THEN BLUE
    ELSE IF row \in {5, 6, 7} THEN RED
    ELSE EMPTY

\* C13: init, called from any engine state, yields the start state: BLUE men
\* on the dark squares of rows 0-2, RED men on those of rows 5-7, rows 3-4
\* empty, RED to move, no selection, no valid moves, no chain, no mandatory
\* capture, game not over, 12 pieces each.
C13_InitYieldsStartState ==
    result.op = "init" =>
        /\ \A row \in Coord, col \in Coord : board[row][col] = startCell(row, col)
        /\ currentPlayer = 1
        /\ selectedPiece = null
        /\ validMoves = <<>>
        /\ ~captureChain
        /\ ~mustCapture
        /\ ~gameOver
        /\ redPieces = 12
        /\ bluePieces = 12

\* init has been called in a match in which moves had been made.
C13_Witness ==
    /\ result.op = "init"
    /\ plies > 0
    /\ board[1][0] = BLUE /\ board[6][1] = RED /\ board[3][0] = EMPTY

\* The targets of the simple moves in a sequence of moves.
stepTargets(seq) ==
    { <<seq[i].row, seq[i].col>> : i \in { j \in 1 .. Len(seq) : ~seq[j].capture } }

capturesIn(seq) == { seq[i] : i \in { j \in 1 .. Len(seq) : seq[j].capture } }

absDiff(a, b) == IF a >= b THEN a - b ELSE b - a

\* C14: for every piece of the current player the candidates of getValidMoves
\* are: simple moves to the adjacent empty diagonal cells and captures two
\* cells along a diagonal over an adjacent opponent piece onto an empty cell
\* in bounds, with the jumped cell recorded; in the two forward directions for
\* a man (RED toward row 0, BLUE toward row 7), in all four for a king. No
\* longer move and no jump over an own piece is produced.
C14_MoveGeometry ==
    \A r \in Coord, c \in Coord :
        ownerOf(board[r][c]) = currentPlayer =>
            LET free == getValidMoves(board, currentPlayer, FALSE, r, c)
                forced == getValidMoves(board, currentPlayer, TRUE, r, c)
                all == free \o forced
            IN /\ capturesIn(forced) = rulesCaptures(board, r, c)
               /\ rulesCaptures(board, r, c) = {} =>
                     stepTargets(free) = rulesSteps(board, r, c)
               /\ \A i \in 1 .. Len(all) :
                     LET m == all[i]
                     IN /\ onBoard(m.row, m.col)
                        /\ board[m.row][m.col] = EMPTY
                        /\ absDiff(m.row, r) = absDiff(m.col, c)
                        /\ absDiff(m.row, r) = IF m.capture THEN 2 ELSE 1
                        /\ board[r][c] = RED => m.row < r
                        /\ board[r][c] = BLUE => m.row > r
                        /\ m.capture =>
                              /\ 2 * m.capturedRow = r + m.row
                              /\ 2 * m.capturedCol = c + m.col
                              /\ ownerOf(board[m.capturedRow][m.capturedCol])
                                    = otherPlayer(currentPlayer)

\* The current player has a king that captures backward, a king that steps
\* backward, and a man whose way forward is closed by a piece of its own color
\* with an empty cell behind it.
C14_Witness ==
    /\ \E r \in Coord, c \in Coord :
          /\ ownerOf(board[r][c]) = currentPlayer /\ isKing(board[r][c])
          /\ \E m \in rulesCaptures(board, r, c) :
                IF currentPlayer = 1 THEN m.row > r ELSE m.row < r
    /\ \E r \in Coord, c \in Coord, d \in Diagonals :
          /\ ownerOf(board[r][c]) = currentPlayer /\ ~isKing(board[r][c])
          /\ mayGo(board[r][c], d)
          /\ onBoard(r + 2 * d[1], c + 2 * d[2])
          /\ ownerOf(board[r + d[1]][c + d[2]]) = currentPlayer
          /\ board[r + 2 * d[1]][c + 2 * d[2]] = EMPTY

\* C15: getValidMoves never mixes move kinds: a piece with a capture gets only
\* its captures; a piece without one gets nothing while mustCapture is set,
\* even when it has simple moves; only without a capture and with mustCapture
\* false does it get its simple moves.
C15_CapturesDominate ==
    \A r \in Coord, c \in Coord, mc \in BOOLEAN :
        ownerOf(board[r][c]) = currentPlayer =>
            LET ms == getValidMoves(board, currentPlayer, mc, r, c)
            IN IF canCapture(board, r, c)
               THEN /\ ms # <<>>
                    /\ \A i \in 1 .. Len(ms) : ms[i].capture
               ELSE IF mc
               THEN ms = <<>>
               ELSE /\ \A i \in 1 .. Len(ms) : ~ms[i].capture
                    /\ stepTargets(ms) = rulesSteps(board, r, c)

\* A piece of the current player has a capture and a simple move at once, and
\* another one has simple moves only while the capture is mandatory.
C15_Witness ==
    /\ mustCapture
    /\ \E r \in Coord, c \in Coord :
          /\ ownerOf(board[r][c]) = currentPlayer
          /\ canCapture(board, r, c)
          /\ rulesSteps(board, r, c) # {}
    /\ \E r \in Coord, c \in Coord :
          /\ ownerOf(board[r][c]) = currentPlayer
          /\ ~canCapture(board, r, c)
          /\ rulesSteps(board, r, c) # {}
          /\ getValidMoves(board, currentPlayer, mustCapture, r, c) = <<>>

\* C16: in a position where the player to move and the opponent both have a
\* piece and no piece of the player to move has a legal move, checkGameOver
\* returns over = true with the opponent of the player to move as winner.
C16_BlockedPlayerLoses ==
    \A p \in {1, 2}, mc \in BOOLEAN :
        (hasPieces(board, p) /\ hasPieces(board, otherPlayer(p))
           /\ ~hasLegalMove(board, p))
        => checkGameOver(board, p, mc, redPieces, bluePieces)
              = [over |-> TRUE, winner |-> otherPlayer(p)]

\* The player to move has a piece, the opponent has one, and the player to
\* move is blocked.
C16_Witness ==
    /\ ~captureChain
    /\ hasPieces(board, currentPlayer)
    /\ hasPieces(board, otherPlayer(currentPlayer))
    /\ ~hasLegalMove(board, currentPlayer)
    /\ checkGameOver(board, currentPlayer, mustCapture, redPieces, bluePieces).over

\* C17: in every match the recorder (Storage.addMatch, through endGame) runs
\* once if the match reaches game over and never otherwise: on every page the
\* records made and the game-over timers still to run count one when the game
\* is over and none when it is not.
C17_RecordedOncePerMatch ==
    \A p \in Peers :
        pages[p].records + pages[p].timers
            = IF gameOf(p).gameOver THEN 1 ELSE 0

\* The fields of the engine two pages are compared on.
sameMatch(g, h) ==
    /\ g.board = h.board
    /\ g.currentPlayer = h.currentPlayer
    /\ g.redPieces = h.redPieces
    /\ g.bluePieces = h.bluePieces
    /\ g.captureChain = h.captureChain
    /\ g.gameOver = h.gameOver

\* C18: when a page has applied a move message its peer sent and no move
\* message is in flight any more, the engines of the two pages agree on board,
\* currentPlayer, piece counters, chain state and gameOver.
C18_EnginesAgreeAfterRelay ==
    [][(/\ \E p \in Peers :
              /\ Len(pages'[p].inbox) < Len(pages[p].inbox)
              /\ Head(pages[p].inbox).type = "move"
              /\ gameOf(p)'.board # gameOf(p).board
        /\ \A p \in Peers : pages'[p].inbox = <<>>)
       => sameMatch(gameOf(1)', gameOf(2)')]_vars

\* What the local input handlers of page p leave on input (row, col).
localOutcomes(p, row, col) ==
    { onClick(pages[p], myPlayer(p), row, col),
      onKeyEnter(pages[p], myPlayer(p), row, col),
      onKeyEscape(pages[p], myPlayer(p)),
      onDragStart(pages[p], row, col),
      onDragEnd(pages[p], TRUE, row, col),
      onDragEnd(pages[p], FALSE, row, col) }

\* C19: while the engine's currentPlayer is not the local player's color,
\* every local selection or move attempt, by click, keyboard or drag and drop,
\* leaves the engine unchanged and sends no move message.
C19_NoInputOutOfTurn ==
    \A p \in Peers, row \in Coord, col \in Coord :
        (pages[p].screen = "game" /\ gameOf(p).currentPlayer # myPlayer(p)) =>
            \A out \in localOutcomes(p, row, col) :
                /\ out.page.game = gameOf(p)
                /\ out.sent = <<>>

\* C20: every successful local movePiece, whichever input path made it, sends
\* exactly one move message with the origin and the destination of that move,
\* and no message is sent without a move.
C20_EveryLocalMoveIsSent ==
    \A p \in Peers, row \in Coord, col \in Coord :
        pages[p].screen = "game" =>
            \A out \in localOutcomes(p, row, col) :
                IF out.page.game.board # gameOf(p).board
                THEN out.sent = << moveMessage(gameOf(p).selectedPiece,
                                               [row |-> row, col |-> col]) >>
                ELSE out.sent = <<>>

\* The destination of move message m is among the moves the engine of page
\* pg computes for the origin of m.
inboundLegal(pg, m) ==
    LET moves == getValidMoves(pg.game.board, pg.game.currentPlayer,
                               pg.game.mustCapture, m.from.row, m.from.col)
    IN \E i \in 1 .. Len(moves) :
          moves[i].row = m.to.row /\ moves[i].col = m.to.col

\* C21: when a page handles a move message whose destination is not among the
\* legal moves its engine computes for the announced origin, its board,
\* currentPlayer, piece counters and gameOver flag stay as they are and the
\* page shows one synchronization error.
C21_IllegalInboundMoveDropped ==
    [][\A p \in Peers :
          (/\ Len(pages'[p].inbox) < Len(pages[p].inbox)
           /\ Head(pages[p].inbox).type = "move"
           /\ ~inboundLegal(pages[p], Head(pages[p].inbox))) =>
              /\ gameOf(p)'.board = gameOf(p).board
              /\ gameOf(p)'.currentPlayer = gameOf(p).currentPlayer
              /\ gameOf(p)'.redPieces = gameOf(p).redPieces
              /\ gameOf(p)'.bluePieces = gameOf(p).bluePieces
              /\ gameOf(p)'.gameOver = gameOf(p).gameOver
              /\ pages'[p].syncErrors = pages[p].syncErrors + 1]_vars

\* A page has shown a synchronization error in a match that is not over, and
\* has handled every message sent to it.
C21_Witness ==
    \E p \in Peers :
        /\ pages[p].syncErrors > 0
        /\ pages[p].inbox = <<>>
        /\ ~gameOf(p).gameOver

\* The local color of page p is the one its way into the room gives it: RED
\* when it created the room, BLUE when it joined.
colorByEntry(p) ==
    /\ pages[p].lobby = "waiting" => (pages[p].isHost /\ myPlayer(p) = RED)
    /\ pages[p].screen = "game" =>
          /\ myPlayer(p) = IF pages[p].isHost THEN RED ELSE BLUE
          /\ pages[peerOf(p)].isHost # pages[p].isHost

\* Page p stays in its match, restarts included, and keeps its color.
colorKept(p) ==
    (pages[p].screen = "game" /\ pages'[p].screen = "game") =>
        /\ myPlayer(p)' = myPlayer(p)
        /\ pages'[p].isHost = pages[p].isHost

\* The first move on page p's board after game_start is the host's: made by
\* local input on the host's page, by a message of the relay on the joiner's.
firstMoveByHost(p) ==
    (/\ pages[p].screen = "game"
     /\ gameOf(p).board = init.board
     /\ gameOf(p)'.board # init.board) =>
        IF pages[p].isHost
        THEN pages'[p].inbox = pages[p].inbox
        ELSE Len(pages'[p].inbox) < Len(pages[p].inbox)

\* C22: the page that created the room plays RED and the page that joined
\* plays BLUE, a page in a match keeps its color from game_start on, across
\* restarts in the room, and the first move of a match is made by the host.
C22_HostIsRedAndMovesFirst ==
    /\ [](\A p \in Peers : colorByEntry(p))
    /\ [][\A p \in Peers : colorKept(p) /\ firstMoveByHost(p)]_vars

\* --------------------------------------------------------- claims: the relay
\* What the handled event is about.
eventConn == event.conn
eventCode == event.msg.roomCode

\* The number of sends of msg to connection `to` among the sends of an event.
sends(sent, to, msg) ==
    Cardinality({i \in 1 .. Len(sent) : sent[i] = [to |-> to, msg |-> msg]})

\* The event was answered with one error message and nothing else was sent.
onlyError(e, text) ==
    e.sent = << [to |-> e.conn, msg |-> errorMessage(text)] >>

\* C23: create_room with a code that already exists replies with an error to
\* the requester and changes no room and no connection attribute; with a fresh
\* code it adds a room whose host is the requester and whose client slot is
\* empty, leaves the other rooms alone and replies room_created.
C23_CreateRoomRejectsDuplicate ==
    [][event'.msg.type = "create_room" =>
          IF eventCode' \in DOMAIN rooms
          THEN /\ Len(event'.sent) = 1
               /\ event'.sent[1].to = eventConn'
               /\ event'.sent[1].msg.type = "error"
               /\ rooms' = rooms
               /\ conns' = conns
          ELSE /\ event'.sent = << [to |-> eventConn',
                                    msg |-> roomCreated(eventCode')] >>
               /\ DOMAIN rooms' = DOMAIN rooms \cup {eventCode'}
               /\ rooms'[eventCode'].host = eventConn'
               /\ rooms'[eventCode'].client = nullConn
               /\ \A k \in DOMAIN rooms : rooms'[k] = rooms[k]]_vars

\* A create_room was refused for a room that another connection hosts and
\* that has a client; the requester is that client.
C23_Witness ==
    /\ event.msg.type = "create_room"
    /\ event.sent[1].msg.type = "error"
    /\ rooms[eventCode].host # eventConn
    /\ rooms[eventCode].client = eventConn
    /\ conns[eventConn].roomCode = eventCode
    /\ ~conns[eventConn].isHost

\* C24: join_room on a code without a room replies "not found", on a room with
\* a client it replies "full", a different error, and in both cases no room
\* changes; otherwise the requester takes the client slot, join_success with
\* the host's name goes to the joiner and exactly one player_joined with the
\* joiner's name to the host.
C24_JoinRoomOutcomes ==
    [][event'.msg.type = "join_room" =>
          IF eventCode' \notin DOMAIN rooms
          THEN onlyError(event', ROOM_NOT_FOUND) /\ rooms' = rooms
          ELSE IF rooms[eventCode'].client # nullConn
          THEN /\ onlyError(event', ROOM_FULL) /\ rooms' = rooms
               /\ ROOM_FULL # ROOM_NOT_FOUND
          ELSE /\ rooms' = [rooms EXCEPT
                              ![eventCode'].client = eventConn',
                              ![eventCode'].clientName = event'.msg.playerName]
               /\ Len(event'.sent) = 2
               /\ sends(event'.sent, eventConn',
                        joinSuccess(rooms[eventCode'].hostName)) = 1
               /\ sends(event'.sent, rooms[eventCode'].host,
                        playerJoined(event'.msg.playerName)) = 1]_vars

\* A connection joined the room of another connection under another name.
C24_Witness ==
    /\ event.msg.type = "join_room"
    /\ Len(event.sent) = 2
    /\ rooms[eventCode].client = eventConn
    /\ rooms[eventCode].host # eventConn
    /\ rooms[eventCode].hostName # rooms[eventCode].clientName

\* The event was a join_room that was granted.
granted(e) ==
    /\ e.msg.type = "join_room"
    /\ Len(e.sent) > 0
    /\ e.sent[1].msg.type = "join_success"

\* C25: a join_room is decided by the client slot as it is when the message is
\* handled, and a granted join fills the slot in the same step: of two
\* join_room messages of different connections for one room that are handled
\* one after the other, in either order, the second one gets the "full" error,
\* so that never both are granted, and the slot stays with the first one when
\* that was granted.
C25_OneJoinWins ==
    [][(event'.msg.type = "join_room" /\ eventCode' \in DOMAIN rooms) =>
          /\ rooms[eventCode'].client # nullConn =>
                /\ onlyError(event', ROOM_FULL)
                /\ rooms'[eventCode'].client = rooms[eventCode'].client
          /\ rooms[eventCode'].client = nullConn =>
                /\ granted(event')
                /\ rooms'[eventCode'].client = eventConn'
          /\ (/\ event.msg.type = "join_room"
              /\ eventCode = eventCode'
              /\ eventConn # eventConn') =>
                /\ onlyError(event', ROOM_FULL)
                /\ ~(granted(event) /\ granted(event'))
                /\ granted(event) => rooms'[eventCode'].client = eventConn]_vars

\* A join_room was refused as "full" while another joiner, who is not the
\* host, holds the client slot of the room.
C25_Witness ==
    /\ event.msg.type = "join_room"
    /\ onlyError(event, ROOM_FULL)
    /\ rooms[eventCode].client \notin {nullConn, eventConn, rooms[eventCode].host}
    /\ rooms[eventCode].host # eventConn

\* C26: a move message is forwarded once, with from and to as they came, to
\* the member of the room that is not the sender (to the client when the host
\* sent it, to the host when the client sent it), never to the sender, and
\* relaying changes no room and no connection.
C26_MoveForwardedToPeer ==
    [][event'.msg.type = "move" =>
          LET c == eventConn'
              fwd == moveMessage(event'.msg.from, event'.msg.to)
              known == eventCode' \in DOMAIN rooms
          IN /\ rooms' = rooms
             /\ conns' = conns
             /\ Len(event'.sent) <= 1
             /\ \A i \in 1 .. Len(event'.sent) :
                    event'.sent[i].to # c /\ event'.sent[i].msg = fwd
             /\ (/\ known
                 /\ rooms[eventCode'].host = c
                 /\ rooms[eventCode'].client \notin {nullConn, c}) =>
                    event'.sent = << [to |-> rooms[eventCode'].client,
                                      msg |-> fwd] >>
             /\ (/\ known
                 /\ rooms[eventCode'].client = c
                 /\ rooms[eventCode'].host # c) =>
                    event'.sent = << [to |-> rooms[eventCode'].host,
                                      msg |-> fwd] >>]_vars

\* C27: start_game for a code without a room or for a room without a client
\* sends one error to the requester and no game_start; for a room with host
\* and client it sends one game_start with both names to the host and one to
\* the client, whether or not the room was started before.
C27_StartGameOutcomes ==
    [][event'.msg.type = "start_game" =>
          IF \/ eventCode' \notin DOMAIN rooms
             \/ rooms[eventCode'].client = nullConn
          THEN /\ Len(event'.sent) = 1
               /\ event'.sent[1].to = eventConn'
               /\ event'.sent[1].msg.type = "error"
               /\ rooms' = rooms
          ELSE LET room == rooms[eventCode']
                   start == [type |-> "game_start", hostName |-> room.hostName,
                             clientName |-> room.clientName]
               IN /\ event'.sent = << [to |-> room.host, msg |-> start],
                                      [to |-> room.client, msg |-> start] >>
                  /\ rooms'[eventCode'].gameStarted]_vars

\* A started room was started again (the only event after the line in which
\* the room was started): host and client, two connections with two names,
\* were both sent game_start.
C27_Witness ==
    /\ event.msg.type = "start_game"
    /\ Len(event.sent) = 2
    /\ event.sent[1].to # event.sent[2].to
    /\ event.sent[1].msg.hostName # event.sent[1].msg.clientName
    /\ relayScript = <<>>
    /\ relayEvents = 1
    /\ DOMAIN rooms = {eventCode}
    /\ \A c \in Conns : conns[c].state = "open"

\* C28: when a connection closes, every room it is the host of is removed
\* from the room map, and the client of such a room, if there is one, is sent
\* exactly one opponent_disconnected.
C28_HostCloseRemovesRoom ==
    [][event'.msg.type = "close" =>
          \A k \in DOMAIN rooms :
              rooms[k].host = eventConn' =>
                  /\ k \notin DOMAIN rooms'
                  /\ rooms[k].client \notin {nullConn, eventConn'} =>
                        sends(event'.sent, rooms[k].client,
                              disconnectMessage) = 1]_vars

\* C29: when a connection closes, every room it is the client of keeps its
\* host and loses only its client and client name, and the host is sent
\* exactly one opponent_disconnected.
C29_ClientCloseFreesSlot ==
    [][event'.msg.type = "close" =>
          \A k \in DOMAIN rooms :
              (rooms[k].client = eventConn' /\ rooms[k].host # eventConn') =>
                  /\ k \in DOMAIN rooms'
                  /\ rooms'[k] = [rooms[k] EXCEPT !.client = nullConn,
                                                  !.clientName = nullName]
                  /\ sends(event'.sent, rooms[k].host,
                           disconnectMessage) = 1]_vars

\* C30: the host of every room in the room map is a connection that is open.
C30_RoomsHaveLiveHost ==
    \A k \in DOMAIN rooms : conns[rooms[k].host].state = "open"

\* The code is one generateRoomCode can make: six characters, each a capital
\* letter or a digit.
wellFormed(roomCode) ==
    /\ Len(roomCode) = 6
    /\ \A i \in DOMAIN roomCode :
          \/ \E j \in DOMAIN upperCase : upperCase[j] = roomCode[i]
          \/ roomCode[i] \in {"0", "1", "2", "3", "4", "5", "6", "7", "8", "9"}

\* C31: a create_room or join_room message whose room code is not six
\* characters of A-Z and 0-9 is answered with one error message to the
\* requester and changes no room and no connection attribute; and the
\* join_room message the page writes for a typed code carries the code in
\* upper case, so that typing an existing code in lower case joins that room
\* when its client slot is free.
C31_IllFormedCodeRejected ==
    /\ [][(/\ event'.msg.type \in {"create_room", "join_room"}
           /\ ~wellFormed(eventCode')) =>
              /\ Len(event'.sent) = 1
              /\ event'.sent[1].to = eventConn'
              /\ event'.sent[1].msg.type = "error"
              /\ rooms' = rooms
              /\ conns' = conns]_vars
    /\ [](\A c \in Conns, typed \in RoomCodes, playerName \in PlayerNames :
            LET request == joinRoomRequest(typed, playerName)
                k == toUpperCase(typed)
            IN /\ request.roomCode = k
               /\ (/\ conns[c].state = "open"
                   /\ k \in DOMAIN rooms
                   /\ rooms[k].client = nullConn) =>
                      handleMessage(Relay, c, request).rooms[k].client = c)

\* C37: a start_game or move message for a room that the sender is neither
\* the host nor the client of sends nothing to the host or the client of that
\* room and leaves every room as it is.
C37_OnlyMembersReachRoom ==
    [][(/\ event'.msg.type \in {"start_game", "move"}
        /\ eventCode' \in DOMAIN rooms
        /\ eventConn' \notin {rooms[eventCode'].host,
                              rooms[eventCode'].client}) =>
           /\ rooms' = rooms
           /\ \A i \in 1 .. Len(event'.sent) :
                  event'.sent[i].to \notin {rooms[eventCode'].host,
                                           rooms[eventCode'].client}]_vars

\* C38: when a connection closes, a room that it is neither the host nor the
\* client of stays in the room map as it is, and none of that room's members
\* is sent opponent_disconnected on its account: every opponent_disconnected
\* of the step goes to a member of a room the closing connection is in.
C38_CloseTouchesOwnRoomsOnly ==
    [][event'.msg.type = "close" =>
          LET c == eventConn'
              own == {k \in DOMAIN rooms : c \in {rooms[k].host, rooms[k].client}}
          IN /\ \A k \in DOMAIN rooms \ own :
                    k \in DOMAIN rooms' /\ rooms'[k] = rooms[k]
             /\ \A i \in 1 .. Len(event'.sent) :
                    \E k \in own :
                        event'.sent[i].to \in {rooms[k].host, rooms[k].client}]_vars

\* The rooms connection c is the host or the client of.
roomsOf(c) == {k \in DOMAIN rooms : c \in {rooms[k].host, rooms[k].client}}

\* C39: every connection is the host or the client of at most one room, and
\* no room has one connection as host and as client.
C39_OneRoomPerConnection ==
    /\ \A c \in Conns : Cardinality(roomsOf(c)) <= 1
    /\ \A k \in DOMAIN rooms : rooms[k].host # rooms[k].client

\* The number of cells of board b that hold a man or a king of player p.
piecesOn(b, p) ==
    Cardinality({sq \in Coord \X Coord : ownerOf(b[sq[1]][sq[2]]) = p})

\* C32: in every state of the engine redPieces is the number of RED and
\* RED_KING cells of the board and bluePieces the number of BLUE and BLUE_KING
\* cells; a movePiece that captures takes exactly one piece of the opponent
\* off the board and one from the opponent's counter and leaves the mover's
\* pieces and counter as they are, and a movePiece that does not capture
\* changes no counter and no number of pieces.
C32_CountersMatchBoard ==
    /\ [](/\ redPieces = piecesOn(board, 1)
          /\ bluePieces = piecesOn(board, 2))
    /\ [][moveStep =>
            LET mover == currentPlayer
                taken == IF result'.captured THEN 1 ELSE 0
            IN /\ piecesOn(board', mover) = piecesOn(board, mover)
               /\ piecesOn(board', otherPlayer(mover))
                     = piecesOn(board, otherPlayer(mover)) - taken
               /\ redPieces' = redPieces - (IF mover = 2 THEN taken ELSE 0)
               /\ bluePieces' = bluePieces - (IF mover = 1 THEN taken ELSE 0)]_vars

\* The second hop of a capture chain has just been made: two pieces of one
\* player are gone and the other player has lost none.
C32_Witness ==
    /\ moved /\ result.captured
    /\ ~gameOver
    /\ {redPieces, bluePieces} = {12, 10}

\* --------------------------------------------- claims: the pages of a match
\* A click on the piece of (r, c) on page p selects that piece.
clickSelects(p, r, c) ==
    handlePieceClick(pages[p], myPlayer(p), r, c).game.selectedPiece
        = [row |-> r, col |-> c]

\* A click on the piece of (r, c) on page p leaves board and selection alone.
clickRefused(p, r, c) ==
    LET after == handlePieceClick(pages[p], myPlayer(p), r, c).game
    IN /\ after.board = gameOf(p).board
       /\ after.selectedPiece = gameOf(p).selectedPiece
       /\ after.validMoves = gameOf(p).validMoves

\* C33: on a page in a match that is not over and whose local player is to
\* move, handlePieceClick selects every piece of the local player, man or
\* king, that selectPiece of the engine accepts and that is not selected yet,
\* and refuses every piece of the opponent, on the host's page and on the
\* joiner's alike.
C33_ClickSelectsOwnPieces ==
    \A p \in Peers :
        (/\ pages[p].screen = "game"
         /\ isMyTurn(gameOf(p), myPlayer(p))
         /\ ~gameOf(p).gameOver) =>
            \A r \in Coord, c \in Coord :
                LET piece == gameOf(p).board[r][c]
                IN /\ (/\ ownerOf(piece) = myPlayer(p)
                       /\ gameOf(p).selectedPiece # [row |-> r, col |-> c]
                       /\ selectPiece(gameOf(p), r, c).result.success) =>
                          clickSelects(p, r, c)
                   /\ ownerOf(piece) = otherPlayer(myPlayer(p)) =>
                          clickRefused(p, r, c)

\* Page p is in the match and Multiplayer.isMyTurn() is true on it.
turnOf(p) == pages[p].screen = "game" /\ isMyTurn(gameOf(p), myPlayer(p))

\* A move message was sent to a page that has not handled it yet.
moveInFlight ==
    \E p \in Peers : \E i \in 1 .. Len(pages[p].inbox) :
        pages[p].inbox[i].type = "move"

\* C34: isMyTurn() is never true on both pages of a match; while a move
\* message is in flight it is true on neither; and when both pages are in the
\* match, have handled every message sent to them and neither engine is over,
\* it is true on exactly one.
C34_OnePeerToMove ==
    /\ ~(turnOf(1) /\ turnOf(2))
    /\ moveInFlight => (~turnOf(1) /\ ~turnOf(2))
    /\ (/\ \A p \in Peers : /\ pages[p].screen = "game"
                             /\ pages[p].inbox = <<>>
                             /\ ~gameOf(p).gameOver) =>
            (turnOf(1) \/ turnOf(2))

\* Page p handles the move message at the head of its inbox in this step.
handlesMove(p) ==
    /\ pages[p].inbox # <<>>
    /\ Head(pages[p].inbox).type = "move"
    /\ Len(pages'[p].inbox) < Len(pages[p].inbox)

\* The step leaves board, currentPlayer and the piece counters of page p's
\* engine as they are.
positionKept(p) ==
    /\ gameOf(p)'.board = gameOf(p).board
    /\ gameOf(p)'.currentPlayer = gameOf(p).currentPlayer
    /\ gameOf(p)'.redPieces = gameOf(p).redPieces
    /\ gameOf(p)'.bluePieces = gameOf(p).bluePieces

\* C35: a page that handles a move message changes its board, its piece
\* counters or its currentPlayer only if the origin of the move holds a piece
\* of the peer's color and its engine has the peer to move: a move from an
\* empty cell, from a piece of the page's own player, or one that comes
\* while the page's own player is to move changes none of them.
C35_InboundMoveIsThePeers ==
    [][\A p \in Peers :
          handlesMove(p) =>
              LET m == Head(pages[p].inbox)
                  peer == otherPlayer(myPlayer(p))
                  piece == gameOf(p).board[m.from.row][m.from.col]
              IN ~(ownerOf(piece) = peer /\ gameOf(p).currentPlayer = peer)
                    => positionKept(p)]_vars

\* Page p handles game_start in this step: the next Game.init.
handlesGameStart(p) ==
    /\ pages[p].inbox # <<>>
    /\ Head(pages[p].inbox).type = "game_start"
    /\ Len(pages'[p].inbox) < Len(pages[p].inbox)

\* C36: from the step that sets gameOver on a page until the page handles
\* the next game_start, no click, key, drag or move message changes board,
\* currentPlayer or the piece counters of its engine, gameOver stays true and
\* no further game-over result is produced (no timer of showGameOver is set).
C36_GameOverIsAbsorbing ==
    [][\A p \in Peers :
          (gameOf(p).gameOver /\ ~handlesGameStart(p)) =>
              /\ positionKept(p)
              /\ gameOf(p)'.gameOver
              /\ pages'[p].timers <= pages[p].timers]_vars

====
